---- MODULE Spec2Model ----
(***************************************************************************)
(* The sandbox control plane of ROCK: SandboxManager (submit, get_status,  *)
(* stop, the background expiry check), RayDeploymentService, the KV store  *)
(* records alive:{id} and timeout:{id}, and the sandbox actors.            *)
(*                                                                         *)
(* The manager runs on one asyncio event loop: a handler runs atomically   *)
(* from one await to the next, and handlers of different requests          *)
(* interleave at the awaits.  Every action below is one such segment of    *)
(* one handler.  calls[s] is the handler running in slot s: client         *)
(* requests use slots 1..MaxCalls, the stop task the expiry check creates  *)
(* for sandbox id uses slot ReaperSlot(id).                                *)
(*                                                                         *)
(* Spec runs up to MaxCalls client requests at once with the clock         *)
(* standing still; LiveSpec runs one client request at a time together     *)
(* with the clock, the expiry check and its stop tasks, under the fairness *)
(* of the event loop.                                                      *)
(*                                                                         *)
(* Four smaller components have  a specification each: the model service   *)
(* proxy (ProxySpec: one chat_completions request and its upstream), the   *)
(* bash sessions of a sandbox with the agent runtime env that uses them    *)
(* (SessionSpec), the read-write lock AsyncRWLock (LockSpec), and the      *)
(* scheduler's WorkerClient (WorkerSpec).  GuardSpec runs the manager's    *)
(* operations as readers of that lock beside a writer.                     *)
(* StatusV2Spec runs get_status_v2 beside submit and stop.                 *)
(*                                                                         *)
(* The client SDK has three: RetrySpec (the two arun_with_retry            *)
(* functions), ServiceSpec (one client calling install, start and stop on  *)
(* a ModelService and init on its RuntimeEnv) and AgentSpec (one           *)
(* RockAgent.init with its two parallel tasks).                            *)
(*                                                                         *)
(* Memory sizes are counted in KiB (TLC integers are 32 bits wide and      *)
(* "64g" in bytes is 2^36).  cpus are whole numbers.                       *)
(***************************************************************************)
EXTENDS Integers, Sequences, FiniteSets, TLC

\* ------------------------------------------------------------------ bounds
\* client requests in flight at once
MaxCalls == 2
\* the clock stops after this many ticks of one minute
MaxTicks == 2

\* ------------------------------------------------------- program constants
\* stop_time = int(time.time()) + auto_clear_time * 60
SecondsPerMinute == 60
\* runtime.max_allowed_spec.cpus
MaxAllowedCpus == 16
\* runtime.max_allowed_spec.memory, "64g"
MaxAllowedMemory == <<"6", "4", "g">>

\* ------------------------------------------------------------------ inputs
IdSeq == <<"a">>
Ids == {IdSeq[i] : i \in 1..Len(IdSeq)}
IdIndex(id) == CHOOSE i \in 1..Len(IdSeq) : IdSeq[i] = id
\* container_name of a config that supplies none
NoName == "-"
Images == {"python:3.11"}
AutoClearTimes == {1, 2}
CpuInputs == {-1, 0, 16, 20}
MemoryInputs == {<<"0">>, <<"6", "4", "g">>, <<"6", "5", "g">>, <<"a", "b", "c">>}
\* the (cpus, memory) pairs of the configs submitted: the maximum, and one
\* step away from it in each direction
QuotaInputs == {[cpus |-> c, memory |-> <<"6", "4", "g">>] : c \in CpuInputs}
               \cup {[cpus |-> 16, memory |-> m] : m \in MemoryInputs}
Configs == {[container_name |-> n, image |-> i, quota |-> q, auto_clear_time |-> t] :
              n \in Ids \cup {NoName}, i \in Images, q \in QuotaInputs,
              t \in AutoClearTimes}

ClientSlots == 1..MaxCalls
ReaperSlot(id) == MaxCalls + IdIndex(id)
Slots == 1..(MaxCalls + Len(IdSeq))

\* --------------------------------------------------------- parse_memory_size
DigitChars == <<"0", "1", "2", "3", "4", "5", "6", "7", "8", "9">>
IsDigit(c) == \E i \in 1..10 : DigitChars[i] = c
DigitVal(c) == (CHOOSE i \in 1..10 : DigitChars[i] = c) - 1

RECURSIVE DigitsLen(_)
DigitsLen(s) ==
    IF s = <<>> \/ ~IsDigit(Head(s)) THEN 0 ELSE 1 + DigitsLen(Tail(s))

RECURSIVE DigitsValue(_)
DigitsValue(s) ==
    IF s = <<>> THEN 0 ELSE 10 * DigitsValue(SubSeq(s, 1, Len(s) - 1)) + DigitVal(s[Len(s)])

\* KiB per unit; 0 stands for a count of bytes
UnitKiB(u) ==
    CASE u = <<>> -> 0
      [] u = <<"b">> -> 0
      [] u \in {<<"k">>, <<"k", "b">>} -> 1
      [] u \in {<<"m">>, <<"m", "b">>} -> 1024
      [] u \in {<<"g">>, <<"g", "b">>} -> 1024 * 1024
      [] OTHER -> -1

\* [ok |-> FALSE] is the ValueError of a size that does not parse
parse_memory_size(s) ==
    LET n == DigitsLen(s)
        u == SubSeq(s, n + 1, Len(s))
        v == DigitsValue(SubSeq(s, 1, n))
    IN  IF n = 0 \/ UnitKiB(u) = -1 THEN [ok |-> FALSE, size |-> 0]
        ELSE IF UnitKiB(u) = 0 THEN [ok |-> TRUE, size |-> v \div 1024]
        ELSE [ok |-> TRUE, size |-> v * UnitKiB(u)]

\* ------------------------------------------------------ validate_sandbox_spec
\* "ok", or the reason of the BadRequestRockError raised
validate_sandbox_spec_warn_only(q) ==
    LET memory == parse_memory_size(q.memory)
        max_memory == parse_memory_size(MaxAllowedMemory)
    IN  IF ~memory.ok \/ ~max_memory.ok THEN "invalid_memory"
        ELSE IF memory.size > max_memory.size THEN "memory"
        ELSE "ok"

validate_sandbox_spec_strict(q) ==
    LET memory == parse_memory_size(q.memory)
        max_memory == parse_memory_size(MaxAllowedMemory)
    IN  IF ~memory.ok \/ ~max_memory.ok THEN "invalid_memory"
        ELSE IF q.cpus >= MaxAllowedCpus THEN "cpus"
        ELSE IF memory.size > max_memory.size THEN "memory"
        ELSE "ok"

validate_sandbox_spec(q) ==
    LET memory == parse_memory_size(q.memory)
        max_memory == parse_memory_size(MaxAllowedMemory)
    IN  IF ~memory.ok \/ ~max_memory.ok THEN "invalid_memory"
        ELSE IF q.cpus > MaxAllowedCpus THEN "cpus"
        ELSE IF memory.size > max_memory.size THEN "memory"
        ELSE "ok"

\* ------------------------------------------------------------------- state
VARIABLES
    now,              \* time.time(), in seconds
    redis_provider,   \* whether the manager was built with a KV store
    alive,            \* KV: alive:{id} -> SandboxInfo
    timeout,          \* KV: timeout:{id} -> {auto_clear_time, expire_time}
    sandbox_meta,     \* SandboxManager._sandbox_meta
    actors,           \* the named Ray actors "sandbox-{id}"
    calls,            \* the handlers in flight
    reaper,           \* _check_job_background: the keys its scan still holds
    quiet             \* id -> submitted and not touched by a client since

\* the model service proxy
VARIABLES
    proxy             \* the chat_completions request in flight, and its upstream

\* the bash sessions of one sandbox, and the agent runtime env that uses them
VARIABLES
    runtime,          \* LocalSandboxRuntime: sessions, and the outcome of the last call
    session_ready     \* AgentRuntimeEnv._session_ready

\* the read-write lock of the deployment service, and the tasks that use it
VARIABLES
    rwlock,           \* AsyncRWLock: _readers, _writer, _writer_waiting
    tasks             \* where each task is in read_lock / write_lock

\* the scheduler's HTTP client for the worker nodes
VARIABLES
    worker            \* the WorkerClient call in flight, and the worker's response

\* the sandbox manager's operations under the read-write lock
VARIABLES
    managed           \* task -> the SandboxManager operation it is calling

\* the SDK objects a client holds for one sandbox
VARIABLES
    sdk               \* retry: an arun_with_retry call, svc: a ModelService,
                      \* env: its RuntimeEnv, agent: a RockAgent

\* the state of the sandbox manager, and the state of the other components
sandboxVars == <<now, redis_provider, alive, timeout, sandbox_meta, actors, calls, reaper,
                 quiet>>
proxyVars == <<proxy>>
sessionVars == <<runtime, session_ready>>
lockVars == <<rwlock, tasks>>
workerVars == <<worker>>
managerVars == <<managed>>
sdkVars == <<sdk>>
others == <<proxyVars, sessionVars, lockVars, workerVars, managerVars, sdkVars>>
\* what a step of one component leaves alone
notProxy == <<sandboxVars, sessionVars, lockVars, workerVars, managerVars, sdkVars>>
notSession == <<sandboxVars, proxyVars, lockVars, workerVars, managerVars, sdkVars>>
notLock == <<sandboxVars, proxyVars, sessionVars, workerVars, managerVars, sdkVars>>
notWorker == <<sandboxVars, proxyVars, sessionVars, lockVars, managerVars, sdkVars>>
notManager == <<sandboxVars, proxyVars, sessionVars, workerVars, sdkVars>>

vars == <<sandboxVars, others>>

None == [none |-> TRUE]
NoActor == None

Idle == [op |-> "none", id |-> NoName, pc |-> "idle", res |-> "-", why |-> "-",
         quota |-> None, act |-> 0, handle |-> "none", info |-> None, dinfo |-> None,
         ttl |-> None, t0 |-> 0, iso |-> FALSE, cleared |-> FALSE]

\* LocalSandboxRuntime(): no session, nothing called, nothing closed so far
NewRuntime ==
    [sessions |-> [s \in {"default", "agent-runtime-env-session"} |-> None],
     out |-> [op |-> "none", session |-> "-", res |-> "-"],
     closed |-> {}]

\* AsyncRWLock(): nobody reads, writes or waits to write
NewLock == [readers |-> 0, writer |-> FALSE, writer_waiting |-> 0]
\* the tasks that take the lock; a task outside the lock
Tasks == {"t1", "t2", "t3"}
IdleTask == [pc |-> "idle", timed_out |-> FALSE]
\* the task calls no operation of the manager
NoOperation == "none"
\* ModelService.__init__: is_installed = False, is_started = False
NewModelService ==
    [pc |-> "idle", op |-> "-", res |-> "-", ran |-> 0, is_installed |-> FALSE,
     is_started |-> FALSE]
\* RuntimeEnv.__init__: _initialized = False, _session_ready = False; did is
\* what the init() in progress, or the last one, has done in the sandbox
NewRuntimeEnv ==
    [pc |-> "idle", res |-> "-", _initialized |-> FALSE, _session_ready |-> FALSE,
     did |-> {}]
\* RockAgent.__init__: nothing started
NewRockAgent ==
    [pc |-> "idle", cfg |-> None, started |-> <<>>, idx |-> 0, install |-> "-",
     model_service |-> "-", res |-> "-"]

\* no WorkerClient call in flight
WorkerIdle == [pc |-> "idle", op |-> "-", resp |-> None, out |-> None]

\* no chat_completions request in flight
ProxyIdle ==
    [pc |-> "idle", model |-> <<>>, stream |-> FALSE, headers |-> {}, target |-> "-",
     calls |-> 0, up |-> None, status |-> 0, body |-> "-", delivered |-> 0,
     early |-> FALSE]

\* ------------------------------------------------------------- SandboxActor
PhaseNames == <<"image_pull", "docker_run", "gateway_ready">>

\* a new actor: nothing started
NewActor(image) ==
    [image |-> image, started |-> FALSE, done |-> 0, failed |-> FALSE,
     stopped |-> FALSE, stops |-> 0]

\* ServiceStatus.phases of an actor
Phases(a) ==
    [i \in 1..Len(PhaseNames) |->
        IF i <= a.done THEN "SUCCEEDED"
        ELSE IF i = a.done + 1 /\ a.started
             THEN (IF a.failed THEN "FAILED" ELSE "RUNNING")
        ELSE "PENDING"]

\* an actor that counts as alive once the container runs
ActorIsAliveAfterDockerRun(a) == a.done >= 2 /\ ~a.failed /\ ~a.stopped

\* SandboxActor.is_alive
ActorIsAlive(a) == a.done = Len(PhaseNames) /\ ~a.failed /\ ~a.stopped

\* SandboxActor.stop: one container stop, however often it is called
ActorStop(a) == IF a.stopped THEN a ELSE [a EXCEPT !.stopped = TRUE, !.stops = @ + 1]

\* SandboxActor.sandbox_info()["state"]
ActorState(a) ==
    IF a.stopped THEN "STOPPED"
    ELSE IF a.done = Len(PhaseNames) /\ ~a.failed THEN "RUNNING"
    ELSE "PENDING"

\* --------------------------------------------------------------- helpers
Busy(c) == c.pc \notin {"idle", "done"}

\* the handlers of sandbox id that are running
InFlight(id) == {s \in Slots : Busy(calls[s]) /\ calls[s].id = id}

\* a handler of sandbox id starts: the running ones are no longer alone
Touch(c, id) == IF Busy(c) /\ c.id = id THEN [c EXCEPT !.iso = FALSE] ELSE c

\* the actor of sandbox id is killed: every handle on it is dead
Orphan(c, id) ==
    IF Busy(c) /\ c.id = id /\ c.handle = "live" THEN [c EXCEPT !.handle = "dead"] ELSE c

\* what is kept of a handler that has ended: a client's is read by its caller
\* (Return), nobody awaits the task of the expiry check
Ended(s, c) == IF s \in ClientSlots THEN [c EXCEPT !.pc = "done"] ELSE Idle

Result(c, res) ==
    [Idle EXCEPT !.op = c.op, !.id = c.id, !.res = res, !.why = c.why, !.iso = c.iso]

\* the slot a new client request takes: the lowest free one
FreeSlot(s) == s \in ClientSlots /\ calls[s] = Idle /\ \A x \in 1..(s - 1) : calls[x] # Idle

\* ------------------------------------------------------------------- Init
Init ==
    /\ now = 0
    /\ redis_provider \in BOOLEAN
    /\ alive = [id \in Ids |-> None]
    /\ timeout = [id \in Ids |-> None]
    /\ sandbox_meta = [id \in Ids |-> None]
    /\ actors = [id \in Ids |-> NoActor]
    /\ calls = [s \in Slots |-> Idle]
    /\ reaper = {}
    /\ quiet = [id \in Ids |-> FALSE]
    /\ proxy = ProxyIdle
    /\ runtime = NewRuntime
    /\ session_ready = FALSE
    /\ rwlock = NewLock
    /\ tasks = [t \in Tasks |-> IdleTask]
    /\ worker = WorkerIdle
    /\ managed = [t \in Tasks |-> NoOperation]
    /\ sdk = [retry |-> [pc |-> "idle", impl |-> "-", codes |-> <<>>],
              svc |-> NewModelService, env |-> NewRuntimeEnv, agent |-> NewRockAgent]

\* ------------------------------------------------- DeploymentManager.init_config
\* the sandbox is known to the KV store or to the operator
Exists(id) == actors[id] # NoActor \/ alive[id] # None

init_config_no_check(cfg, id) == "ok"

\* resolves the sandbox id; a caller-supplied id that exists is a BadRequest
init_config(cfg, id) ==
    IF cfg.container_name # NoName /\ Exists(id) THEN "exists" ELSE "ok"

\* ------------------------------------------------- RayDeploymentService.submit
\* SandboxActor.options(name=..., num_cpus=..., memory=...).remote(): Ray raises
\* ValueError for a name that is taken and for a negative resource
creator_actor(id, q) ==
    IF actors[id] # NoActor \/ q.cpus < 0 THEN "ValueError" ELSE "ok"

SubmittedActorNotStarted(image) == NewActor(image)

\* the actor as submit leaves it: created, start.remote() called
SubmittedActor(image) == [NewActor(image) EXCEPT !.started = TRUE]

\* ------------------------------------------------------- SandboxManager.submit
\* up to the first await on the actor: init_config, validate_sandbox_spec,
\* _sandbox_meta, the actor created and started
SubmitStart(s, cfg) ==
    /\ FreeSlot(s)
    /\ \E id \in (IF cfg.container_name = NoName
                  THEN {i \in Ids : ~Exists(i)} ELSE {cfg.container_name}) :
         LET c0 == [Idle EXCEPT !.op = "submit", !.id = id, !.iso = (InFlight(id) = {})]
             resolved == init_config(cfg, id)
             valid == validate_sandbox_spec(cfg.quota)
             created == creator_actor(id, cfg.quota)
             rejected == resolved # "ok" \/ valid # "ok"
             c1 == IF rejected
                   THEN [c0 EXCEPT !.pc = "done", !.res = "BadRequest",
                                   !.why = (IF resolved # "ok" THEN resolved ELSE valid),
                                   !.quota = cfg.quota]
                   ELSE IF created # "ok"
                   THEN [c0 EXCEPT !.pc = "done", !.res = created, !.quota = cfg.quota]
                   ELSE [c0 EXCEPT !.pc = "get_info", !.quota = cfg.quota,
                                   !.act = cfg.auto_clear_time, !.handle = "live"]
         IN  /\ calls' = [x \in Slots |-> IF x = s THEN c1 ELSE Touch(calls[x], id)]
             /\ quiet' = [quiet EXCEPT ![id] = FALSE]
             /\ sandbox_meta' = IF rejected THEN sandbox_meta
                                ELSE [sandbox_meta EXCEPT ![id] = [image |-> cfg.image]]
             /\ actors' = IF rejected \/ created # "ok" THEN actors
                          ELSE [actors EXCEPT ![id] = SubmittedActor(cfg.image)]
    /\ UNCHANGED <<now, redis_provider, alive, timeout, reaper, others>>

\* sandbox_actor.sandbox_info.remote() has answered: the SandboxInfo and the
\* expiry are computed
SubmitGetInfo(s) ==
    /\ calls[s].op = "submit" /\ calls[s].pc = "get_info"
    /\ LET c == calls[s]
           info == [image |-> actors[c.id].image, state |-> "PENDING",
                    alive |-> "unset", status |-> "unset"]
           ttl == [auto_clear_time |-> c.act,
                   expire_time |-> now + c.act * SecondsPerMinute]
       IN  IF c.handle = "dead"
           THEN /\ calls' = [calls EXCEPT ![s] = Ended(s, Result(c, "Exception"))]
                /\ quiet' = quiet
           ELSE IF redis_provider
           THEN /\ calls' = [calls EXCEPT ![s] = [c EXCEPT !.pc = "set_alive", !.quota = None,
                                                   !.info = info, !.ttl = ttl]]
                /\ quiet' = quiet
           ELSE /\ calls' = [calls EXCEPT ![s] =
                               Ended(s, [Result(c, "ok") EXCEPT !.info = info])]
                /\ quiet' = [quiet EXCEPT ![c.id] = c.iso]
    /\ UNCHANGED <<now, redis_provider, alive, timeout, sandbox_meta, actors, reaper, others>>

\* json_set(alive_sandbox_key(sandbox_id), "$", sandbox_info)
SubmitSetAlive(s) ==
    /\ calls[s].op = "submit" /\ calls[s].pc = "set_alive"
    /\ alive' = [alive EXCEPT ![calls[s].id] = calls[s].info]
    /\ calls' = [calls EXCEPT ![s].pc = "set_timeout"]
    /\ UNCHANGED <<now, redis_provider, timeout, sandbox_meta, actors, reaper, quiet, others>>

\* a submit that returns without having written the TTL record
SubmitSetTimeoutSkipped(s) ==
    /\ calls[s].op = "submit" /\ calls[s].pc = "set_timeout"
    /\ LET c == calls[s]
       IN  /\ calls' = [calls EXCEPT ![s] = Ended(s, [Result(c, "ok") EXCEPT !.info = c.info])]
           /\ quiet' = [quiet EXCEPT ![c.id] = c.iso]
    /\ UNCHANGED <<now, redis_provider, alive, timeout, sandbox_meta, actors, reaper, others>>

\* json_set(timeout_sandbox_key(sandbox_id), "$", auto_clear_time_dict); return
SubmitSetTimeout(s) ==
    /\ calls[s].op = "submit" /\ calls[s].pc = "set_timeout"
    /\ LET c == calls[s]
       IN  /\ timeout' = [timeout EXCEPT ![c.id] = c.ttl]
           /\ calls' = [calls EXCEPT ![s] = Ended(s, [Result(c, "ok") EXCEPT !.info = c.info])]
           /\ quiet' = [quiet EXCEPT ![c.id] = c.iso]
    /\ UNCHANGED <<now, redis_provider, alive, sandbox_meta, actors, reaper, others>>

\* the caller has read the result
Return(s) ==
    /\ calls[s].pc = "done"
    /\ calls' = [calls EXCEPT ![s] = Idle]
    /\ UNCHANGED <<now, redis_provider, alive, timeout, sandbox_meta, actors, reaper, quiet, others>>

\* one minute passes
Tick ==
    /\ now < MaxTicks * SecondsPerMinute
    /\ now' = now + SecondsPerMinute
    /\ UNCHANGED <<redis_provider, alive, timeout, sandbox_meta, actors, calls, reaper, quiet, others>>

ActorPhaseSucceedAnyway(id) ==
    /\ actors[id] # NoActor
    /\ actors[id].started /\ ~actors[id].stopped
    /\ actors[id].done < Len(PhaseNames)
    /\ actors' = [actors EXCEPT ![id].done = @ + 1]
    /\ UNCHANGED <<now, redis_provider, alive, timeout, sandbox_meta, calls, reaper, quiet, others>>

\* ------------------------------------------------------ SandboxActor bring-up
\* the phase that is running succeeds
ActorPhaseSucceed(id) ==
    /\ actors[id] # NoActor
    /\ actors[id].started /\ ~actors[id].failed /\ ~actors[id].stopped
    /\ actors[id].done < Len(PhaseNames)
    /\ actors' = [actors EXCEPT ![id].done = @ + 1]
    /\ UNCHANGED <<now, redis_provider, alive, timeout, sandbox_meta, calls, reaper, quiet, others>>

\* the phase that is running fails: image pull, container run or gateway
ActorPhaseFail(id) ==
    /\ actors[id] # NoActor
    /\ actors[id].started /\ ~actors[id].failed /\ ~actors[id].stopped
    /\ actors[id].done < Len(PhaseNames)
    /\ actors' = [actors EXCEPT ![id].failed = TRUE]
    /\ UNCHANGED <<now, redis_provider, alive, timeout, sandbox_meta, calls, reaper, quiet, others>>
\* --------------------------------------------------------- SandboxManager.stop
\* stop(sandbox_id) is called by a client
StopCall(s, id) ==
    /\ FreeSlot(s)
    /\ calls' = [x \in Slots |->
                   IF x = s
                   THEN [Idle EXCEPT !.op = "stop", !.id = id, !.pc = "get_actor",
                                     !.iso = (InFlight(id) = {})]
                   ELSE Touch(calls[x], id)]
    /\ quiet' = [quiet EXCEPT ![id] = FALSE]
    /\ UNCHANGED <<now, redis_provider, alive, timeout, sandbox_meta, actors, reaper, others>>

StopGetActorNoCatch(s) ==
    /\ calls[s].op = "stop" /\ calls[s].pc = "get_actor"
    /\ LET c == calls[s]
       IN  calls' = [calls EXCEPT ![s] =
                       IF actors[c.id] # NoActor
                       THEN [c EXCEPT !.pc = "actor_stop", !.handle = "live"]
                       ELSE Ended(s, Result(c, "ValueError"))]
    /\ UNCHANGED <<now, redis_provider, alive, timeout, sandbox_meta, actors, reaper, quiet, others>>

\* async_ray_get_actor: the handle, or the ValueError that stop catches
StopGetActor(s) ==
    /\ calls[s].op = "stop" /\ calls[s].pc = "get_actor"
    /\ LET c == calls[s]
       IN  calls' = [calls EXCEPT ![s] =
                       IF actors[c.id] # NoActor
                       THEN [c EXCEPT !.pc = "actor_stop", !.handle = "live"]
                       ELSE [c EXCEPT !.pc = "nf_clear_alive", !.why = "not_found"]]
    /\ UNCHANGED <<now, redis_provider, alive, timeout, sandbox_meta, actors, reaper, quiet, others>>

\* async_ray_get(actor.stop.remote()): the actor stops its container; on an
\* actor that was killed ray.get raises, async_ray_get raises Exception and
\* stop ends there
StopActorStop(s) ==
    /\ calls[s].op = "stop" /\ calls[s].pc = "actor_stop"
    /\ LET c == calls[s]
       IN  IF c.handle = "dead"
           THEN /\ calls' = [calls EXCEPT ![s] = Ended(s, Result(c, "Exception"))]
                /\ actors' = actors
           ELSE /\ calls' = [calls EXCEPT ![s].pc = "kill"]
                /\ actors' = [actors EXCEPT ![c.id] = ActorStop(@)]
    /\ UNCHANGED <<now, redis_provider, alive, timeout, sandbox_meta, reaper, quiet, others>>

\* ray.kill(actor); back in SandboxManager.stop, _sandbox_meta.pop(sandbox_id)
StopKill(s) ==
    /\ calls[s].op = "stop" /\ calls[s].pc = "kill"
    /\ LET c == calls[s]
       IN  /\ actors' = IF c.handle = "live" THEN [actors EXCEPT ![c.id] = NoActor]
                        ELSE actors
           /\ calls' = [x \in Slots |->
                          IF x = s THEN [c EXCEPT !.pc = "clear_alive", !.handle = "none"]
                          ELSE IF c.handle = "live" THEN Orphan(calls[x], c.id)
                          ELSE calls[x]]
           /\ sandbox_meta' = [sandbox_meta EXCEPT ![c.id] = None]
    /\ UNCHANGED <<now, redis_provider, alive, timeout, reaper, quiet, others>>

\* _clear_redis_keys: json_delete(alive_sandbox_key(sandbox_id))
StopClearAlive(s) ==
    /\ calls[s].op = "stop" /\ calls[s].pc \in {"nf_clear_alive", "clear_alive"}
    /\ LET c == calls[s]
       IN  /\ alive' = IF redis_provider THEN [alive EXCEPT ![c.id] = None] ELSE alive
           /\ calls' = [calls EXCEPT ![s].pc =
                          IF c.pc = "nf_clear_alive" THEN "nf_clear_timeout"
                          ELSE "clear_timeout"]
    /\ UNCHANGED <<now, redis_provider, timeout, sandbox_meta, actors, reaper, quiet, others>>

\* _clear_redis_keys: json_delete(timeout_sandbox_key(sandbox_id)).  In the
\* except branch _sandbox_meta.pop and the second _clear_redis_keys follow;
\* after the second stop returns
StopClearTimeout(s) ==
    /\ calls[s].op = "stop" /\ calls[s].pc \in {"nf_clear_timeout", "clear_timeout"}
    /\ LET c == calls[s]
       IN  /\ timeout' = IF redis_provider THEN [timeout EXCEPT ![c.id] = None] ELSE timeout
           /\ IF c.pc = "nf_clear_timeout"
              THEN /\ calls' = [calls EXCEPT ![s].pc = "clear_alive"]
                   /\ sandbox_meta' = [sandbox_meta EXCEPT ![c.id] = None]
              ELSE /\ calls' = [calls EXCEPT ![s] =
                                  Ended(s, [Result(c, "ok") EXCEPT !.cleared = TRUE])]
                   /\ sandbox_meta' = sandbox_meta
    /\ UNCHANGED <<now, redis_provider, alive, actors, reaper, quiet, others>>

\* --------------------------------------------------- SandboxManager.get_status
\* get_status(sandbox_id) is called by a client at time t0
GetStatusCall(s, id) ==
    /\ FreeSlot(s)
    /\ calls' = [x \in Slots |->
                   IF x = s
                   THEN [Idle EXCEPT !.op = "get_status", !.id = id, !.pc = "gs_get_actor",
                                     !.t0 = now, !.iso = (InFlight(id) = {})]
                   ELSE Touch(calls[x], id)]
    /\ quiet' = [quiet EXCEPT ![id] = FALSE]
    /\ UNCHANGED <<now, redis_provider, alive, timeout, sandbox_meta, actors, reaper, others>>

GsGetActorStale(s) ==
    /\ calls[s].op = "get_status" /\ calls[s].pc = "gs_get_actor"
    /\ LET c == calls[s]
       IN  calls' = [calls EXCEPT ![s] =
                       IF actors[c.id] # NoActor
                       THEN [c EXCEPT !.pc = "gs_read", !.handle = "live"]
                       ELSE Ended(s, [Result(c, "ok") EXCEPT !.info = alive[c.id]])]
    /\ UNCHANGED <<now, redis_provider, alive, timeout, sandbox_meta, actors, reaper, quiet, others>>

\* RayDeploymentService.get_status: async_ray_get_actor; its ValueError is
\* not caught
GsGetActor(s) ==
    /\ calls[s].op = "get_status" /\ calls[s].pc = "gs_get_actor"
    /\ LET c == calls[s]
       IN  calls' = [calls EXCEPT ![s] =
                       IF actors[c.id] # NoActor
                       THEN [c EXCEPT !.pc = "gs_read", !.handle = "live"]
                       ELSE Ended(s, Result(c, "ValueError"))]
    /\ UNCHANGED <<now, redis_provider, alive, timeout, sandbox_meta, actors, reaper, quiet, others>>

DeploymentInfoKeepState(a) ==
    [image |-> a.image,
     state |-> IF a.stopped THEN "STOPPED" ELSE "PENDING",
     alive |-> IF ActorIsAlive(a) THEN "true" ELSE "false",
     status |-> "unset"]

\* the SandboxInfo RayDeploymentService.get_status builds from the actor: the
\* actor's record with "state" and "alive" set ("phases" and "port_mapping",
\* set next to them, are left out of the record here); no key "status" is set,
\* so .get("status") is None
DeploymentInfo(a) ==
    [image |-> a.image,
     state |-> IF ActorIsAlive(a) THEN "RUNNING" ELSE ActorState(a),
     alive |-> IF ActorIsAlive(a) THEN "true" ELSE "false",
     status |-> "unset"]

\* RayDeploymentService.get_status: sandbox_info, get_status and is_alive of
\* the actor
GsRead(s) ==
    /\ calls[s].op = "get_status" /\ calls[s].pc = "gs_read"
    /\ LET c == calls[s]
           dinfo == DeploymentInfo(actors[c.id])
       IN  calls' = [calls EXCEPT ![s] =
                       IF c.handle = "dead" THEN Ended(s, Result(c, "Exception"))
                       ELSE IF redis_provider
                       THEN [c EXCEPT !.pc = "gs_cache", !.handle = "none", !.dinfo = dinfo]
                       ELSE Ended(s, [Result(c, "ok") EXCEPT !.info = dinfo])]
    /\ UNCHANGED <<now, redis_provider, alive, timeout, sandbox_meta, actors, reaper, quiet, others>>

\* a lookup that raises when the KV store holds no alive record
GsCacheMissRaises(s) ==
    /\ calls[s].op = "get_status" /\ calls[s].pc = "gs_cache"
    /\ LET c == calls[s]
       IN  calls' = [calls EXCEPT ![s] =
                       IF alive[c.id] = None THEN Ended(s, Result(c, "Exception"))
                       ELSE [c EXCEPT !.pc = "gs_set_alive",
                                      !.info = [alive[c.id] EXCEPT !.state = c.dinfo.state]]]
    /\ UNCHANGED <<now, redis_provider, alive, timeout, sandbox_meta, actors, reaper, quiet, others>>

\* build_sandbox_info_from_redis: the cached record with the live state, or
\* the live record
GsCache(s) ==
    /\ calls[s].op = "get_status" /\ calls[s].pc = "gs_cache"
    /\ LET c == calls[s]
       IN  calls' = [calls EXCEPT ![s] =
                       [c EXCEPT !.pc = "gs_set_alive",
                                 !.info = IF alive[c.id] = None THEN c.dinfo
                                          ELSE [alive[c.id] EXCEPT !.state = c.dinfo.state]]]
    /\ UNCHANGED <<now, redis_provider, alive, timeout, sandbox_meta, actors, reaper, quiet, others>>

\* json_set(alive_sandbox_key(sandbox_id), "$", sandbox_info)
GsSetAlive(s) ==
    /\ calls[s].op = "get_status" /\ calls[s].pc = "gs_set_alive"
    /\ alive' = [alive EXCEPT ![calls[s].id] = calls[s].info]
    /\ calls' = [calls EXCEPT ![s].pc = "ttl_read_alive"]
    /\ UNCHANGED <<now, redis_provider, timeout, sandbox_meta, actors, reaper, quiet, others>>

\* the end of get_status: the keys "status", "port_mapping" and "alive" of the
\* live record are merged into the record and the response is built from it
GsResponse(s, c) ==
    Ended(s, [Result(c, "ok") EXCEPT !.info = [c.info EXCEPT !.alive = c.dinfo.alive,
                                                            !.status = c.dinfo.status]])

\* _update_expire_time: json_get(alive_sandbox_key(sandbox_id))
GsTtlReadAlive(s) ==
    /\ calls[s].op = "get_status" /\ calls[s].pc = "ttl_read_alive"
    /\ LET c == calls[s]
       IN  calls' = [calls EXCEPT ![s] =
                       IF alive[c.id] = None THEN GsResponse(s, c)
                       ELSE [c EXCEPT !.pc = "ttl_read_timeout"]]
    /\ UNCHANGED <<now, redis_provider, alive, timeout, sandbox_meta, actors, reaper, quiet, others>>

SlidTtlMinutes(origin_info, t) ==
    [auto_clear_time |-> origin_info.auto_clear_time,
     expire_time |-> t + origin_info.auto_clear_time]

\* the TTL record _update_expire_time writes for the record it read, at time t
SlidTtl(origin_info, t) ==
    [auto_clear_time |-> origin_info.auto_clear_time,
     expire_time |-> t + origin_info.auto_clear_time * SecondsPerMinute]

\* _update_expire_time: json_get(timeout_sandbox_key(sandbox_id)) and the new
\* expiry
GsTtlReadTimeout(s) ==
    /\ calls[s].op = "get_status" /\ calls[s].pc = "ttl_read_timeout"
    /\ LET c == calls[s]
       IN  calls' = [calls EXCEPT ![s] =
                       IF timeout[c.id] = None THEN GsResponse(s, c)
                       ELSE [c EXCEPT !.pc = "ttl_write", !.why = "slid",
                                      !.ttl = SlidTtl(timeout[c.id], now)]]
    /\ UNCHANGED <<now, redis_provider, alive, timeout, sandbox_meta, actors, reaper, quiet, others>>

\* _update_expire_time: json_set(timeout_sandbox_key(sandbox_id), "$", new_dict)
GsTtlWrite(s) ==
    /\ calls[s].op = "get_status" /\ calls[s].pc = "ttl_write"
    /\ LET c == calls[s]
       IN  /\ timeout' = [timeout EXCEPT ![c.id] = c.ttl]
           /\ calls' = [calls EXCEPT ![s] = GsResponse(s, c)]
    /\ UNCHANGED <<now, redis_provider, alive, sandbox_meta, actors, reaper, quiet, others>>

\* ------------------------------------------ SandboxManager._check_job_background
\* scan_iter(match="alive:*"): the keys of one scan
ReaperScan ==
    /\ redis_provider
    /\ reaper = {}
    /\ reaper' = {id \in Ids : alive[id] # None}
    /\ reaper' # {}
    /\ UNCHANGED <<now, redis_provider, alive, timeout, sandbox_meta, actors, calls, quiet, others>>

\* _is_expired: int(time.time()) > expire_time
is_expired(ttl, t) == t > ttl.expire_time

ReaperCheckSkip(id) ==
    /\ id \in reaper
    /\ reaper' = reaper \ {id}
    /\ UNCHANGED <<now, redis_provider, alive, timeout, sandbox_meta, actors, calls, quiet, others>>

\* an expiry check that takes a missing TTL record for an expired one
ReaperCheckMissingIsExpired(id) ==
    /\ id \in reaper
    /\ reaper' = reaper \ {id}
    /\ LET s == ReaperSlot(id)
           expired == IF timeout[id] = None THEN TRUE ELSE is_expired(timeout[id], now)
       IN  IF expired /\ calls[s] = Idle
           THEN calls' = [x \in Slots |->
                            IF x = s
                            THEN [Idle EXCEPT !.op = "stop", !.id = id, !.pc = "get_actor",
                                              !.iso = (InFlight(id) = {})]
                            ELSE Touch(calls[x], id)]
           ELSE calls' = calls
    /\ UNCHANGED <<now, redis_provider, alive, timeout, sandbox_meta, actors, quiet, others>>

\* an expiry check that the error of a missing TTL record brings to a halt
ReaperCheckHalts(id) ==
    /\ id \in reaper
    /\ timeout[id] # None
    /\ reaper' = reaper \ {id}
    /\ LET s == ReaperSlot(id)
       IN  IF is_expired(timeout[id], now) /\ calls[s] = Idle
           THEN calls' = [x \in Slots |->
                            IF x = s
                            THEN [Idle EXCEPT !.op = "stop", !.id = id, !.pc = "get_actor",
                                              !.iso = (InFlight(id) = {})]
                            ELSE Touch(calls[x], id)]
           ELSE calls' = calls
    /\ UNCHANGED <<now, redis_provider, alive, timeout, sandbox_meta, actors, quiet, others>>

\* one key of the scan: _is_expired raises when the TTL record is missing (the
\* loop logs it and goes on); an expired sandbox gets a stop task.  One stop
\* task of the expiry check runs per sandbox at a time.
ReaperCheck(id) ==
    /\ id \in reaper
    /\ reaper' = reaper \ {id}
    /\ LET s == ReaperSlot(id)
       IN  IF timeout[id] # None /\ is_expired(timeout[id], now) /\ calls[s] = Idle
           THEN calls' = [x \in Slots |->
                            IF x = s
                            THEN [Idle EXCEPT !.op = "stop", !.id = id, !.pc = "get_actor",
                                              !.iso = (InFlight(id) = {})]
                            ELSE Touch(calls[x], id)]
           ELSE calls' = calls
    /\ UNCHANGED <<now, redis_provider, alive, timeout, sandbox_meta, actors, quiet, others>>

\* ------------------------------------------------------------------- Next
\* a step of a handler that is running, or of an actor
Step ==
    \/ \E s \in Slots : SubmitGetInfo(s)
    \/ \E s \in Slots : SubmitSetAlive(s)
    \/ \E s \in Slots : SubmitSetTimeout(s)
    \/ \E s \in Slots : StopGetActor(s)
    \/ \E s \in Slots : StopActorStop(s)
    \/ \E s \in Slots : StopKill(s)
    \/ \E s \in Slots : StopClearAlive(s)
    \/ \E s \in Slots : StopClearTimeout(s)
    \/ \E s \in Slots : GsGetActor(s)
    \/ \E s \in Slots : GsRead(s)
    \/ \E s \in Slots : GsCache(s)
    \/ \E s \in Slots : GsSetAlive(s)
    \/ \E s \in Slots : GsTtlReadAlive(s)
    \/ \E s \in Slots : GsTtlReadTimeout(s)
    \/ \E s \in Slots : GsTtlWrite(s)
    \/ \E s \in Slots : Return(s)
    \/ \E id \in Ids : ActorPhaseSucceed(id)
    \/ \E id \in Ids : ActorPhaseFail(id)

\* up to MaxCalls client requests run at once; the clock stands still, so
\* nothing expires
Next ==
    \/ \E s \in ClientSlots, cfg \in Configs : SubmitStart(s, cfg)
    \/ \E s \in ClientSlots, id \in Ids : StopCall(s, id)
    \/ \E s \in ClientSlots, id \in Ids : GetStatusCall(s, id)
    \/ Step

Spec == Init /\ [][Next]_vars

\* one client request at a time, the clock, and the expiry check with the
\* stop tasks it creates
TimedNext ==
    \/ \E cfg \in Configs : SubmitStart(1, cfg)
    \/ \E id \in Ids : StopCall(1, id)
    \/ \E id \in Ids : GetStatusCall(1, id)
    \/ Step
    \/ ReaperScan
    \/ \E id \in Ids : ReaperCheck(id)
    \/ Tick

\* the event loop runs every handler that can run, _check_job_background is
\* scheduled again and again, and a phase that is running ends
Fairness ==
    /\ \A s \in Slots :
         /\ WF_vars(StopGetActor(s)) /\ WF_vars(StopActorStop(s)) /\ WF_vars(StopKill(s))
         /\ WF_vars(StopClearAlive(s)) /\ WF_vars(StopClearTimeout(s))
    /\ WF_vars(ReaperScan)
    /\ \A id \in Ids : WF_vars(ReaperCheck(id))
    /\ \A id \in Ids : WF_vars(ActorPhaseSucceed(id) \/ ActorPhaseFail(id))

LiveSpec == Init /\ [][TimedNext]_vars /\ Fairness

\* ================================================================= claims
\* the quota is above runtime.max_allowed_spec in cpus or in parsed memory
OverQuota(q) ==
    \/ q.cpus > MaxAllowedCpus
    \/ /\ parse_memory_size(q.memory).ok
       /\ parse_memory_size(q.memory).size > parse_memory_size(MaxAllowedMemory).size

\* the step in which slot s takes a new submit
SubmitBegins(s) == calls[s] = Idle /\ calls'[s].op = "submit"

\* the step in which the handler of slot s ends with its result
Ends(s, op) == Busy(calls[s]) /\ calls[s].op = op /\ calls'[s].pc = "done"

\* C1: a submit whose cpus exceed max_allowed_spec.cpus or whose parsed memory
\* exceeds the parsed max_allowed_spec.memory fails with BadRequest at once,
\* and the step creates no alive:{id} key, no timeout:{id} key and no actor.
C1_OverQuotaIsBadRequest ==
    [][\A s \in ClientSlots :
         (SubmitBegins(s) /\ OverQuota(calls'[s].quota))
            => /\ calls'[s].pc = "done"
               /\ calls'[s].res = "BadRequest"
               /\ alive' = alive /\ timeout' = timeout /\ actors' = actors]_vars

C1_Witness ==
    \E s \in ClientSlots :
        /\ calls[s].op = "submit" /\ calls[s].pc = "done"
        /\ calls[s].res = "BadRequest" /\ calls[s].why \in {"cpus", "memory"}
        /\ OverQuota(calls[s].quota)
        /\ alive[calls[s].id] = None /\ timeout[calls[s].id] = None

\* C2: a stop(id) that no other handler of the same sandbox overlaps, whether
\* the sandbox exists, was stopped before or was never created, ends without
\* an error and leaves no alive:{id} key, no timeout:{id} key and no actor.
C2_StopIdempotent ==
    [][\A s \in ClientSlots :
         (Ends(s, "stop") /\ calls'[s].iso)
            => /\ calls'[s].res = "ok"
               /\ alive'[calls[s].id] = None
               /\ timeout'[calls[s].id] = None
               /\ actors'[calls[s].id] = NoActor
               /\ sandbox_meta'[calls[s].id] = None]_vars

\* a repeated stop: it found no actor, and ended well
C2_Witness ==
    \E s \in ClientSlots :
        /\ calls[s].op = "stop" /\ calls[s].pc = "done" /\ calls[s].iso
        /\ calls[s].res = "ok" /\ calls[s].why = "not_found"
        /\ redis_provider
        /\ alive[calls[s].id] = None /\ timeout[calls[s].id] = None
        /\ actors[calls[s].id] = NoActor

\* C3: every stop(id) that has ended has called deployment.stop and then
\* deleted both KV keys, whatever deployment.stop did.
C3_StopAlwaysClearsKeys ==
    \A s \in ClientSlots :
        (calls[s].op = "stop" /\ calls[s].pc = "done") => calls[s].cleared

\* C4: every stop(id) returns without an error, also when another stop(id) of
\* the same sandbox runs at the same time, and the container is stopped once.
C4_ConcurrentStopsReturnOk ==
    /\ \A s \in ClientSlots :
         (calls[s].op = "stop" /\ calls[s].pc = "done") => calls[s].res = "ok"
    /\ \A id \in Ids : actors[id] # NoActor => actors[id].stops <= 1

\* C7: a submit that names a sandbox id that exists is rejected with
\* BadRequest; the step creates no actor and leaves the actor, the KV records
\* and the metadata of the existing sandbox as they were.
C7_ExistingIdIsBadRequest ==
    [][\A s \in ClientSlots :
         (SubmitBegins(s) /\ Exists(calls'[s].id))
            => /\ calls'[s].pc = "done"
               /\ calls'[s].res = "BadRequest"
               /\ actors' = actors /\ alive' = alive /\ timeout' = timeout
               /\ sandbox_meta' = sandbox_meta]_vars

C7_Witness ==
    \E s \in ClientSlots :
        /\ calls[s].op = "submit" /\ calls[s].pc = "done"
        /\ calls[s].res = "BadRequest" /\ calls[s].why = "exists"
        /\ actors[calls[s].id] # NoActor /\ alive[calls[s].id] # None

\* the quota asks for memory "0" or for no cpus
NonPositive(q) ==
    \/ q.cpus <= 0
    \/ parse_memory_size(q.memory).ok /\ parse_memory_size(q.memory).size = 0

\* C8: a submit with memory "0" or with non-positive cpus is rejected with
\* BadRequest.
C8_NonPositiveIsBadRequest ==
    \A s \in ClientSlots :
        (calls[s].op = "submit" /\ calls[s].quota # None /\ NonPositive(calls[s].quota))
            => calls[s].res = "BadRequest"

\* the quota is within runtime.max_allowed_spec
WithinQuota(q) ==
    /\ q.cpus <= MaxAllowedCpus
    /\ parse_memory_size(q.memory).ok
    /\ parse_memory_size(q.memory).size <= parse_memory_size(MaxAllowedMemory).size

\* C9: a submit with cpus <= max.cpus and memory <= max.memory is not rejected
\* by the quota validation; with a fresh id and cpus that Ray accepts it goes
\* on to create the actor.
C9_WithinQuotaPasses ==
    \A s \in ClientSlots :
        (calls[s].op = "submit" /\ calls[s].quota # None /\ WithinQuota(calls[s].quota))
            => /\ calls[s].why \notin {"cpus", "memory", "invalid_memory"}
               /\ (calls[s].why # "exists" /\ calls[s].quota.cpus >= 0)
                     => calls[s].pc = "get_info"

\* cpus exactly max.cpus and memory exactly max.memory: accepted
C9_Witness ==
    \E s \in ClientSlots :
        /\ calls[s].op = "submit" /\ calls[s].pc = "get_info"
        /\ calls[s].quota.cpus = MaxAllowedCpus
        /\ calls[s].quota.memory = MaxAllowedMemory
        /\ actors[calls[s].id] # NoActor

\* C5: the TTL record a get_status writes keeps the auto_clear_time T it read
\* and has expire_time >= t + 60*T, t the time of the call; a successful
\* get_status that no other handler of the sandbox overlaps leaves the TTL
\* record of the sandbox refreshed so, with T as it was recorded.
C5_SlidingTtl ==
    [][\A s \in ClientSlots :
         LET c == calls[s]
         IN  /\ (c.op = "get_status" /\ c.pc = "ttl_write" /\ calls'[s].pc = "done")
                   => /\ timeout'[c.id].expire_time
                           >= c.t0 + SecondsPerMinute * timeout'[c.id].auto_clear_time
                      /\ timeout[c.id] # None
                           => timeout'[c.id].auto_clear_time = timeout[c.id].auto_clear_time
             /\ (Ends(s, "get_status") /\ calls'[s].res = "ok" /\ calls'[s].iso
                   /\ timeout[c.id] # None)
                   => /\ timeout'[c.id] # None
                      /\ timeout'[c.id].auto_clear_time = timeout[c.id].auto_clear_time
                      /\ timeout'[c.id].expire_time
                           >= c.t0 + SecondsPerMinute * timeout[c.id].auto_clear_time]_vars

\* a get_status after the first tick has moved the expiry
C5_Witness ==
    \E s \in ClientSlots :
        /\ calls[s].op = "get_status" /\ calls[s].pc = "done"
        /\ calls[s].res = "ok" /\ calls[s].why = "slid" /\ calls[s].iso
        /\ now > 0
        /\ timeout[calls[s].id] # None
        /\ timeout[calls[s].id].auto_clear_time = 2
        /\ timeout[calls[s].id].expire_time = now + 2 * SecondsPerMinute

\* the sandbox was submitted, no client has called for it since, and its
\* expiry has passed
Expired(id) ==
    /\ quiet[id]
    /\ alive[id] # None /\ timeout[id] # None
    /\ now > timeout[id].expire_time

\* the sandbox is stopped and both its keys are gone
Reaped(id) == alive[id] = None /\ timeout[id] = None /\ actors[id] = NoActor

\* C6: a sandbox that was submitted and that no client calls for is, once
\* now > expire_time, stopped by the expiry check: eventually its actor is
\* gone and both alive:{id} and timeout:{id} have disappeared.
C6_ExpiredIsReaped ==
    \A id \in Ids : Expired(id) ~> (Reaped(id) \/ ~quiet[id])

\* the stop task of the expiry check has run to its end on a quiet sandbox
C6_Witness ==
    \E id \in Ids :
        /\ quiet[id] /\ Reaped(id)
        /\ now > 0
        /\ calls[ReaperSlot(id)] = Idle
        /\ \A s \in ClientSlots : calls[s] = Idle

\* C10: once submit has created the actor of a sandbox, the sandbox is
\* eventually alive, unless a phase of its bring-up fails or it is stopped.
C10_EventuallyAlive ==
    \A id \in Ids :
        (actors[id] # NoActor)
            ~> (\/ actors[id] = NoActor
                \/ actors[id].failed \/ actors[id].stopped
                \/ ActorIsAlive(actors[id]))

\* submit has returned and the sandbox is alive
C10_Witness ==
    \E s \in ClientSlots :
        /\ calls[s].op = "submit" /\ calls[s].pc = "done" /\ calls[s].res = "ok"
        /\ actors[calls[s].id] # NoActor
        /\ ActorIsAlive(actors[calls[s].id])

\* C11: every status response whose is_alive is true reports state RUNNING.
C11_AliveIsRunning ==
    \A s \in ClientSlots :
        (calls[s].op = "get_status" /\ calls[s].pc = "done" /\ calls[s].res = "ok"
            /\ calls[s].info.alive = "true")
            => calls[s].info.state = "RUNNING"

\* a status response with is_alive true, with and without the cached record
C11_Witness ==
    \E s \in ClientSlots :
        /\ calls[s].op = "get_status" /\ calls[s].pc = "done" /\ calls[s].res = "ok"
        /\ calls[s].info.alive = "true" /\ calls[s].info.state = "RUNNING"
        /\ redis_provider

\* a stop(id) has completed in another slot than s
StopCompleted(s, id) ==
    \E x \in ClientSlots \ {s} :
        calls[x].op = "stop" /\ calls[x].pc = "done" /\ calls[x].id = id

PhaseRank(st) ==
    CASE st = "PENDING" -> 0
      [] st = "RUNNING" -> 1
      [] OTHER -> 2

\* some phase of the actor is FAILED
SomePhaseFailed(a) == \E i \in 1..Len(PhaseNames) : Phases(a)[i] = "FAILED"

\* C13: while the actor of a sandbox lives, every phase of its ServiceStatus
\* keeps its status or moves forward, a FAILED phase stays FAILED, and the
\* sandbox is not alive whenever one of its phases is FAILED.
C13_PhasesOnlyAdvance ==
    [][\A id \in Ids :
         /\ (actors[id] # NoActor /\ actors'[id] # NoActor)
               => \A i \in 1..Len(PhaseNames) :
                     LET p == Phases(actors[id])[i]
                         q == Phases(actors'[id])[i]
                     IN  /\ p = q \/ PhaseRank(p) < PhaseRank(q)
                         /\ p = "FAILED" => q = "FAILED"
         /\ (actors'[id] # NoActor /\ SomePhaseFailed(actors'[id]))
               => ~ActorIsAlive(actors'[id])]_vars

\* a later phase has failed after an earlier one succeeded
C13_Witness ==
    \E id \in Ids :
        /\ actors[id] # NoActor
        /\ Phases(actors[id])[1] = "SUCCEEDED"
        /\ Phases(actors[id])[2] = "FAILED"
        /\ Phases(actors[id])[3] = "PENDING"
        /\ ~ActorIsAlive(actors[id])

\* =============================================================== model proxy
\* chunks of one upstream response body
MaxChunks == 2

\* the model names of the requests
QwenModel == <<"Q", "w", "e", "n", "2", ".", "5", "-", "7", "2", "B">>
OtherModel == <<"g", "p", "t", "-", "4", "o">>
ModelNames == {QwenModel, OtherModel}
\* the headers of the requests, names in lower case as the server reads them
HeaderSets == {{"authorization"},
               {"authorization", "host", "content-length", "content-type",
                "transfer-encoding"}}
\* the status codes an upstream answers with
UpstreamStatuses == {200, 401, 429}
\* rock.sdk.model.server.config.PROXY_TARGET_URL
PROXY_TARGET_URL == "http://default.url"

\* chat_completions: the headers forwarded
forwarded_headers(headers) ==
    headers \ {"content-length", "content-type", "host", "transfer-encoding"}

\* POST /v1/chat/completions arrives; the handler builds the headers, takes
\* the target URL and posts to the upstream
chat_completions(model, stream, headers) ==
    /\ proxy.pc = "idle"
    /\ proxy' = [ProxyIdle EXCEPT !.pc = "post", !.model = model, !.stream = stream,
                                  !.headers = forwarded_headers(headers),
                                  !.target = PROXY_TARGET_URL, !.calls = 1]
    /\ UNCHANGED notProxy

\* the upstream answers: status line and headers
UpstreamResponds(st, n) ==
    /\ proxy.pc = "post" /\ proxy.up = None
    /\ proxy' = [proxy EXCEPT !.up = [status |-> st, total |-> n, sent |-> 0,
                                      done |-> FALSE]]
    /\ UNCHANGED notProxy

\* the upstream sends the next chunk of the body
UpstreamSends ==
    /\ proxy.pc = "post" /\ proxy.up # None /\ proxy.up.sent < proxy.up.total
    /\ proxy' = [proxy EXCEPT !.up.sent = @ + 1]
    /\ UNCHANGED notProxy

\* the upstream ends the response
UpstreamCompletes ==
    /\ proxy.pc = "post" /\ proxy.up # None
    /\ proxy.up.sent = proxy.up.total /\ ~proxy.up.done
    /\ proxy' = [proxy EXCEPT !.up.done = TRUE]
    /\ UNCHANGED notProxy

\* client.post raises: httpx.TimeoutException -> HTTPException 504,
\* httpx.RequestError -> HTTPException 502
UpstreamFails(kind) ==
    /\ proxy.pc = "post"
    /\ IF proxy.up = None THEN TRUE ELSE ~proxy.up.done
    /\ proxy' = [proxy EXCEPT !.pc = "done", !.body = kind,
                              !.status = IF kind = "timeout" THEN 504 ELSE 502]
    /\ UNCHANGED notProxy

\* client.post returns once the whole response has been read.
\* forward_non_streaming_request: the body with the upstream status;
\* forward_streaming_request: a StreamingResponse over the body that was read
ForwardReturns ==
    /\ proxy.pc = "post" /\ proxy.up # None /\ proxy.up.done
    /\ proxy' = IF proxy.stream
                THEN [proxy EXCEPT !.pc = "stream", !.status = 200, !.body = "upstream"]
                ELSE [proxy EXCEPT !.pc = "done", !.status = proxy.up.status,
                                   !.body = "upstream"]
    /\ UNCHANGED notProxy

\* generate(): the next chunk goes to the client; after the last one the
\* response ends
StreamDelivers ==
    /\ proxy.pc = "stream" /\ proxy.delivered < proxy.up.sent
    /\ proxy' = [proxy EXCEPT !.delivered = @ + 1,
                              !.early = IF proxy.delivered = 0 THEN ~proxy.up.done ELSE @,
                              !.pc = IF proxy.delivered + 1 = proxy.up.total
                                     THEN "done" ELSE "stream"]
    /\ UNCHANGED notProxy

\* the client has the whole response
ProxyReturn ==
    /\ proxy.pc = "done"
    /\ proxy' = ProxyIdle
    /\ UNCHANGED notProxy

ProxyNext ==
    \/ \E model \in ModelNames, stream \in BOOLEAN, headers \in HeaderSets :
          chat_completions(model, stream, headers)
    \/ \E st \in UpstreamStatuses, n \in 1..MaxChunks : UpstreamResponds(st, n)
    \/ UpstreamSends
    \/ UpstreamCompletes
    \/ \E kind \in {"timeout", "reset"} : UpstreamFails(kind)
    \/ ForwardReturns
    \/ StreamDelivers
    \/ ProxyReturn

ProxySpec == Init /\ [][ProxyNext]_vars

\* ---------------------------------------------------------- model proxy claims
\* ModelProxyConfig of the proxy's tests: the statuses that are retried, and
\* the ordered routing rules with their default
RetryableStatusCodes == {429, 499}
ProxyRules == <<[key |-> <<"q", "w", "e", "n">>, url |-> "http://whale.url"]>>
DefaultUrl == "http://default.url"

\* the request is answered
ProxyAnswered == proxy.pc \in {"stream", "done"}
\* the upstream answered with a status that is not 2xx and is not retried
UpstreamRefused ==
    /\ proxy.up # None
    /\ proxy.up.status \notin 200..299
    /\ proxy.up.status \notin RetryableStatusCodes

\* C14: a non-2xx upstream response whose status is not retryable reaches the
\* client after exactly one upstream call, with the upstream's status and body.
C14_RefusalReturnedUnchanged ==
    (ProxyAnswered /\ UpstreamRefused /\ proxy.body = "upstream")
        => (proxy.calls = 1 /\ proxy.status = proxy.up.status)

\* the upstream attempt raised, or answered with a retryable status
UpstreamRetryable ==
    \/ proxy.body \in {"timeout", "reset"}
    \/ IF proxy.up = None THEN FALSE
       ELSE proxy.body = "upstream" /\ proxy.up.status \in RetryableStatusCodes

\* C15: an upstream attempt that raises, or answers with a retryable status,
\* is followed by another attempt before the client is answered.
C15_RetryableIsRetried ==
    (ProxyAnswered /\ UpstreamRetryable) => proxy.calls >= 2

\* C16: with stream: true the first chunk reaches the client before the
\* upstream response has completed.
C16_StreamIsIncremental ==
    (proxy.stream /\ proxy.delivered >= 1) => proxy.early

\* str.lower() of one character of the model names
LowerChar(ch) ==
    CASE ch = "Q" -> "q"
      [] ch = "B" -> "b"
      [] OTHER -> ch
Lower(s) == [i \in 1..Len(s) |-> LowerChar(s[i])]
\* key in name
IsSubstring(key, name) ==
    \E i \in 0..(Len(name) - Len(key)) : SubSeq(name, i + 1, i + Len(key)) = key
\* the URL of the first rule whose key is in the model name, else the default
RECURSIVE FirstMatch(_, _)
FirstMatch(rules, model) ==
    IF rules = <<>> THEN DefaultUrl
    ELSE IF IsSubstring(Head(rules).key, Lower(model)) THEN Head(rules).url
    ELSE FirstMatch(Tail(rules), model)
select_upstream(model) == FirstMatch(ProxyRules, model)

\* C17: the upstream URL of a request is the URL of the first proxy rule whose
\* key is a substring of the request's model name, or the default URL when no
\* rule matches.
C17_RoutedByModelName ==
    proxy.pc # "idle" => proxy.target = select_upstream(proxy.model)

\* ============================================================ bash sessions
\* commands run in one session
MaxRuns == 1

SessionNames == {"default", "agent-runtime-env-session"}
\* the environments a session is created with
SessionEnvs == {"plain", "agent"}

\* a session that is open
IsOpen(rt, s) == rt.sessions[s] # None
Outcome(op, s, res) == [op |-> op, session |-> s, res |-> res]

\* create_session that replaces a session that is open
CreateSessionReplace(rt, s, env) ==
    [rt EXCEPT !.sessions[s] = [env |-> env, runs |-> 0],
               !.out = Outcome("create", s, "ok")]

\* create_session: a name that is open is a Conflict; else the session opens
CreateSession(rt, s, env) ==
    IF IsOpen(rt, s)
    THEN [rt EXCEPT !.out = Outcome("create", s, "Conflict")]
    ELSE [rt EXCEPT !.sessions[s] = [env |-> env, runs |-> 0],
                    !.out = Outcome("create", s, "ok")]

\* close_session that closes every session
CloseSessionAll(rt, s) ==
    IF ~IsOpen(rt, s)
    THEN [rt EXCEPT !.out = Outcome("close", s, "SessionDoesNotExist")]
    ELSE [rt EXCEPT !.sessions = [x \in DOMAIN rt.sessions |-> None],
                    !.closed = @ \cup {s}, !.out = Outcome("close", s, "ok")]

\* close_session: SessionDoesNotExistError unless the session is open; else
\* the session leaves runtime.sessions
CloseSession(rt, s) ==
    IF ~IsOpen(rt, s)
    THEN [rt EXCEPT !.out = Outcome("close", s, "SessionDoesNotExist")]
    ELSE [rt EXCEPT !.sessions[s] = None, !.closed = @ \cup {s},
                    !.out = Outcome("close", s, "ok")]

\* run_in_session: SessionDoesNotExistError unless the session is open
RunInSession(rt, s) ==
    IF ~IsOpen(rt, s)
    THEN [rt EXCEPT !.out = Outcome("run", s, "SessionDoesNotExist")]
    ELSE [rt EXCEPT !.sessions[s].runs = @ + 1, !.out = Outcome("run", s, "ok")]

create_session(s, env) ==
    /\ runtime' = CreateSession(runtime, s, env)
    /\ UNCHANGED <<notSession, session_ready>>

run_in_session(s) ==
    /\ IsOpen(runtime, s) => runtime.sessions[s].runs < MaxRuns
    /\ runtime' = RunInSession(runtime, s)
    /\ UNCHANGED <<notSession, session_ready>>

close_session(s) ==
    /\ runtime' = CloseSession(runtime, s)
    /\ UNCHANGED <<notSession, session_ready>>

\* AgentRuntimeEnv.ensure_session: nothing when the session is known to be
\* ready; else create_session, whose exception is swallowed
ensure_session ==
    /\ ~session_ready
    /\ runtime' = [CreateSession(runtime, "agent-runtime-env-session", "agent")
                     EXCEPT !.out.op = "ensure", !.out.res = "ok"]
    /\ session_ready' = TRUE
    /\ UNCHANGED notSession

\* a new AgentRuntimeEnv over the same sandbox
NewAgentRuntimeEnv ==
    /\ session_ready
    /\ session_ready' = FALSE
    /\ UNCHANGED <<notSession, runtime>>

SessionNext ==
    \/ \E s \in SessionNames, env \in SessionEnvs : create_session(s, env)
    \/ \E s \in SessionNames : run_in_session(s)
    \/ \E s \in SessionNames : close_session(s)
    \/ ensure_session
    \/ NewAgentRuntimeEnv

SessionSpec == Init /\ [][SessionNext]_vars

\* ------------------------------------------------------- bash session claims
\* this step is the call op on session s
Called(op, s) ==
    /\ runtime' # runtime
    /\ runtime'.out.op = op /\ runtime'.out.session = s

\* C18: run_in_session and close_session on a session that is not open (closed
\* before, or never created) fail with SessionDoesNotExist and change no
\* session; close_session on an open session removes that session and no other.
C18_ClosedSessionDoesNotExist ==
    [][\A s \in SessionNames :
          /\ ((Called("run", s) \/ Called("close", s)) /\ ~IsOpen(runtime, s))
                => /\ runtime'.out.res = "SessionDoesNotExist"
                   /\ runtime'.sessions = runtime.sessions
          /\ (Called("close", s) /\ IsOpen(runtime, s))
                => /\ runtime'.out.res = "ok"
                   /\ runtime'.sessions = [runtime.sessions EXCEPT ![s] = None]]_vars

\* a session was closed, and the run_in_session that followed failed
C18_Witness ==
    \E s \in SessionNames :
        /\ s \in runtime.closed
        /\ ~IsOpen(runtime, s)
        /\ runtime.out = Outcome("run", s, "SessionDoesNotExist")

\* C19: create_session with a name that is open is a Conflict, and the open
\* session stays as it was: also when ensure_session swallows the Conflict.
C19_OpenNameIsConflict ==
    [][\A s \in SessionNames :
          ((Called("create", s) \/ Called("ensure", s)) /\ IsOpen(runtime, s))
              => /\ runtime'.sessions = runtime.sessions
                 /\ Called("create", s) => runtime'.out.res = "Conflict"]_vars

\* a session that has run a command is still there after the Conflict
C19_Witness ==
    \E s \in SessionNames :
        /\ runtime.out = Outcome("create", s, "Conflict")
        /\ IsOpen(runtime, s)
        /\ runtime.sessions[s].runs = 1

\* ============================================================== AsyncRWLock
\* write_lock may enter: nobody reads and nobody writes
CanWrite(l) == ~l.writer /\ l.readers = 0
\* read_lock may enter: nobody writes and nobody waits to write
CanRead(l) == ~l.writer /\ l.writer_waiting = 0

\* write_lock(timeout): the writer enters at once, or is counted as waiting
WriteLock(t) ==
    /\ tasks[t].pc \in {"idle", "raised"}
    /\ IF CanWrite(rwlock)
       THEN /\ rwlock' = [rwlock EXCEPT !.writer = TRUE]
            /\ tasks' = [tasks EXCEPT ![t].pc = "writing"]
       ELSE /\ rwlock' = [rwlock EXCEPT !.writer_waiting = @ + 1]
            /\ tasks' = [tasks EXCEPT ![t].pc = "wait_write"]
    /\ UNCHANGED notLock

\* the waiting writer is woken and enters
WriteLockAcquire(t) ==
    /\ tasks[t].pc = "wait_write" /\ CanWrite(rwlock)
    /\ rwlock' = [rwlock EXCEPT !.writer = TRUE, !.writer_waiting = @ - 1]
    /\ tasks' = [tasks EXCEPT ![t].pc = "writing"]
    /\ UNCHANGED notLock

\* a timeout that leaves the writer counted as waiting
WriteLockTimeoutLeak(t) ==
    /\ tasks[t].pc = "wait_write"
    /\ tasks' = [tasks EXCEPT ![t] = [pc |-> "raised", timed_out |-> TRUE]]
    /\ UNCHANGED <<rwlock, notLock>>

\* the timeout passes first: the writer stops waiting and
\* InternalServerRockError is raised
WriteLockTimeout(t) ==
    /\ tasks[t].pc = "wait_write"
    /\ rwlock' = [rwlock EXCEPT !.writer_waiting = @ - 1]
    /\ tasks' = [tasks EXCEPT ![t] = [pc |-> "raised", timed_out |-> TRUE]]
    /\ UNCHANGED notLock

\* the writer leaves its block
WriteUnlock(t) ==
    /\ tasks[t].pc = "writing"
    /\ rwlock' = [rwlock EXCEPT !.writer = FALSE]
    /\ tasks' = [tasks EXCEPT ![t] = IdleTask]
    /\ UNCHANGED notLock

\* read_lock(): the reader enters at once, or waits
ReadLock(t) ==
    /\ tasks[t].pc \in {"idle", "raised"}
    /\ IF CanRead(rwlock)
       THEN /\ rwlock' = [rwlock EXCEPT !.readers = @ + 1]
            /\ tasks' = [tasks EXCEPT ![t].pc = "reading"]
       ELSE /\ tasks' = [tasks EXCEPT ![t].pc = "wait_read"]
            /\ UNCHANGED rwlock
    /\ UNCHANGED notLock

\* the waiting reader is woken and enters
ReadLockAcquire(t) ==
    /\ tasks[t].pc = "wait_read" /\ CanRead(rwlock)
    /\ rwlock' = [rwlock EXCEPT !.readers = @ + 1]
    /\ tasks' = [tasks EXCEPT ![t].pc = "reading"]
    /\ UNCHANGED notLock

\* the reader leaves its block
ReadUnlock(t) ==
    /\ tasks[t].pc = "reading"
    /\ rwlock' = [rwlock EXCEPT !.readers = @ - 1]
    /\ tasks' = [tasks EXCEPT ![t] = IdleTask]
    /\ UNCHANGED notLock

LockNext ==
    \E t \in Tasks :
        \/ WriteLock(t)
        \/ WriteLockAcquire(t)
        \/ WriteLockTimeout(t)
        \/ WriteUnlock(t)
        \/ ReadLock(t)
        \/ ReadLockAcquire(t)
        \/ ReadUnlock(t)

LockSpec == Init /\ [][LockNext]_vars

\* ------------------------------------------------------------- lock claims
\* the tasks at a place of write_lock / read_lock
At(pc) == {t \in Tasks : tasks[t].pc = pc}

\* C20: a write_lock that times out while a reader holds the lock raises
\* InternalServerRockError without having entered its block, and the lock
\* counts no writer and no waiting writer on its behalf: _writer is true only
\* while a writer is in its block, _writer_waiting is the number of writers
\* still waiting, and a read_lock taken when no writer writes or waits is
\* acquired at once.
C20_WriteTimeoutLeavesLockClean ==
    /\ [](/\ rwlock.writer <=> At("writing") # {}
          /\ rwlock.writer_waiting = Cardinality(At("wait_write"))
          /\ rwlock.readers = Cardinality(At("reading")))
    /\ [][\A t \in Tasks :
             /\ (tasks[t].pc = "wait_write" /\ tasks'[t].pc = "raised")
                   => /\ rwlock'.writer = rwlock.writer
                      /\ rwlock'.readers = rwlock.readers
             /\ (tasks[t].pc = "raised" /\ tasks'[t].pc = "wait_read")
                   => At("writing") \cup At("wait_write") # {}]_vars

\* the writer timed out behind a reader, and its read_lock was acquired while
\* that reader still held the lock
C20_Witness ==
    \E t \in Tasks :
        /\ tasks[t] = [pc |-> "reading", timed_out |-> TRUE]
        /\ rwlock = [readers |-> 2, writer |-> FALSE, writer_waiting |-> 0]

\* ============================================================= WorkerClient
\* CommandResponse.exit_code when the body has none: None
NoExitCode == -1
WorkerOps == {"execute", "check_pid_exists", "read_file", "write_file"}
\* what a worker answers: 200 with the result of the command, or an error
\* whose body has no field of CommandResponse
WorkerResponses ==
    [status : {200}, stdout : {"exists", "not_exists"}, stderr : {"", "denied"},
     exit_code : {0, 1, 2}]
    \cup [status : {500}, stdout : {""}, stderr : {""}, exit_code : {NoExitCode}]

Raised(e) == [raised |-> e]
Returned(v) == [returned |-> v]

\* WorkerClient.execute, after client.post: CommandResponse(**resp.json()) is
\* returned when its exit_code is 0 and RuntimeError is raised otherwise
execute(resp) ==
    LET execute_resp == [stdout |-> resp.stdout, stderr |-> resp.stderr,
                         exit_code |-> resp.exit_code]
    IN  IF execute_resp.exit_code # 0 THEN Raised("RuntimeError")
        ELSE Returned(execute_resp)

\* WorkerClient.check_pid_exists: execute, then stdout.strip() == "exists"
check_pid_exists(resp) ==
    LET result == execute(resp)
    IN  IF "raised" \in DOMAIN result THEN result
        ELSE Returned(result.returned.stdout = "exists")

\* WorkerClient.read_file: the content for 200, RuntimeError otherwise
read_file(resp) ==
    IF resp.status = 200 THEN Returned(resp.stdout) ELSE Raised("RuntimeError")

\* WorkerClient.write_file: resp.json(), whatever the status
write_file(resp) == Returned(resp)

\* a method of WorkerClient is called and posts to the worker
WorkerCall(op) ==
    /\ worker.pc = "idle"
    /\ worker' = [WorkerIdle EXCEPT !.pc = "post", !.op = op]
    /\ UNCHANGED notWorker

\* the worker answers
WorkerResponds(resp) ==
    /\ worker.pc = "post"
    /\ worker' = [worker EXCEPT !.pc = "response", !.resp = resp]
    /\ UNCHANGED notWorker

\* the method returns or raises
WorkerReturns ==
    /\ worker.pc = "response"
    /\ worker' = [worker EXCEPT !.pc = "done", !.out =
                     CASE worker.op = "execute" -> execute(worker.resp)
                       [] worker.op = "check_pid_exists" -> check_pid_exists(worker.resp)
                       [] worker.op = "read_file" -> read_file(worker.resp)
                       [] OTHER -> write_file(worker.resp)]
    /\ UNCHANGED notWorker

\* the caller goes on
WorkerDone ==
    /\ worker.pc = "done"
    /\ worker' = WorkerIdle
    /\ UNCHANGED notWorker

WorkerNext ==
    \/ \E op \in WorkerOps : WorkerCall(op)
    \/ \E resp \in WorkerResponses : WorkerResponds(resp)
    \/ WorkerReturns
    \/ WorkerDone

WorkerSpec == Init /\ [][WorkerNext]_vars

\* ------------------------------------------------------ worker client claims
\* C21: an execute call answered 200 with exit_code # 0 returns stdout, stderr
\* and exit_code to the caller and does not raise; a call answered with a
\* status that is not 2xx raises.
C21_NonZeroExitIsReturned ==
    (worker.pc = "done" /\ worker.op = "execute")
        => IF worker.resp.status \in 200..299
           THEN worker.out = Returned([stdout |-> worker.resp.stdout,
                                       stderr |-> worker.resp.stderr,
                                       exit_code |-> worker.resp.exit_code])
           ELSE "raised" \in DOMAIN worker.out

\* ------------------------------------------------- sandbox manager claims, II
\* this step ends a submit of slot s with an error that is not a rejection of
\* the request
SubmitFails(s) ==
    /\ SubmitBegins(s) \/ Ends(s, "submit")
    /\ calls'[s].pc = "done"
    /\ calls'[s].res \notin {"ok", "BadRequest"}

\* C22: when submit raises after the request was accepted, nothing of the
\* sandbox is left: no running actor, no alive key, no timeout key and no
\* _sandbox_meta entry.
C22_FailedSubmitLeavesNothing ==
    [][\A s \in ClientSlots :
          SubmitFails(s)
              => LET id == calls'[s].id
                 IN  /\ actors'[id] = NoActor \/ actors'[id].stopped
                     /\ alive'[id] = None /\ timeout'[id] = None
                     /\ sandbox_meta'[id] = None]_vars

\* the client's get_status of sandbox id has ended after running together with
\* the stop that the expiry check created, and that stop has ended too
StatusRacedReaperStop(id) ==
    /\ calls[1].pc = "done" /\ calls[1].op = "get_status" /\ calls[1].id = id
    /\ ~calls[1].iso
    /\ calls[ReaperSlot(id)] = Idle

\* C23: a get_status that races the stop of the expiry check sees the sandbox
\* as it was before the stop or fails with its absence, and does not undo the
\* stop: once both have ended neither alive:{id} nor timeout:{id} is left.
C23_StatusDoesNotUndoReaperStop ==
    \A id \in Ids :
        StatusRacedReaperStop(id)
            => /\ calls[1].res \in {"ok", "ValueError", "Exception"}
               /\ alive[id] = None /\ timeout[id] = None

\* C24: whenever no handler of sandbox id is running, alive:{id} is in the KV
\* store if and only if timeout:{id} is.
C24_AliveIffTimeout ==
    \A id \in Ids :
        InFlight(id) = {} => (alive[id] = None <=> timeout[id] = None)

\* this step ends a get_status of slot s that was built with the KV store,
\* ran alone and returns a response
StatusReturns(s) ==
    /\ Ends(s, "get_status") /\ calls'[s].res = "ok"
    /\ redis_provider /\ calls[s].iso

\* C25: when get_status returns with the KV store configured, the alive:{id}
\* record in the store is the merged record that was returned: it holds the
\* live values that call obtained.
C25_StoredIsMergedRecord ==
    [][\A s \in ClientSlots :
          StatusReturns(s) => alive'[calls[s].id] = calls'[s].info]_vars

\* C26: with the KV store configured and a cached record present, the response
\* of get_status has the image of the cached record, and the alive value and
\* the phases of the live view of the deployment: its status is the phase map
\* that was read, so it is set.
C26_CachedStaticLiveDynamic ==
    [][\A s \in ClientSlots :
          StatusReturns(s)
              => /\ calls'[s].info.image = calls[s].info.image
                 /\ calls'[s].info.alive = calls[s].dinfo.alive
                 /\ calls'[s].info.status # "unset"]_vars

\* ------------------------------------------------------- expiry check claims
\* this step is the expiry check creating its stop task for sandbox id
ReaperSchedulesStop(id) ==
    calls[ReaperSlot(id)] = Idle /\ calls'[ReaperSlot(id)].op = "stop"
\* this step is the expiry check dealing with the scanned key of sandbox id
ReaperChecks(id) == id \in reaper /\ id \notin reaper'

\* C27: the expiry check creates a stop task for a scanned key only when the
\* TTL record of the sandbox exists and now > expire_time at that moment; with
\* no TTL record the key is skipped and no stop is created.
C27_StopOnlyWhenExpired ==
    [][\A id \in Ids :
          /\ ReaperSchedulesStop(id)
                => /\ ReaperChecks(id)
                   /\ timeout[id] # None
                   /\ now > timeout[id].expire_time
          /\ (ReaperChecks(id) /\ timeout[id] = None) => calls' = calls]_vars

\* the stop task was created for a sandbox whose TTL has passed
C27_Witness ==
    \E id \in Ids :
        /\ calls[ReaperSlot(id)].op = "stop" /\ calls[ReaperSlot(id)].pc = "get_actor"
        /\ timeout[id] # None
        /\ now > timeout[id].expire_time

\* the scan holds the key of a sandbox whose TTL record is missing: _is_expired
\* will raise for it
ErrorKey(id) == id \in reaper /\ alive[id] # None /\ timeout[id] = None

\* the stop task that the expiry check created ends with an exception
ReaperStopFails(id) ==
    LET s == ReaperSlot(id)
    IN  calls[s].op = "stop" /\ calls[s].pc = "actor_stop" /\ calls[s].handle = "dead"
        /\ calls'[s] = Idle

InSubmit(s, id) ==
    /\ calls[s].op = "submit" /\ calls[s].id = id
    /\ calls[s].pc \in {"get_info", "set_alive", "set_timeout"}

\* handler s is inside the body of stop for sandbox id: past its first step
InStop(s, id) ==
    /\ calls[s].op = "stop" /\ calls[s].id = id
    /\ calls[s].pc \in {"actor_stop", "kill", "clear_alive", "clear_timeout",
                        "nf_clear_alive", "nf_clear_timeout"}

\* C29: for one sandbox id no stop is inside its body while a submit is inside
\* its body.
C29_SubmitStopExclusive ==
    \A id \in Ids : \A s, t \in Slots : ~(InSubmit(s, id) /\ InStop(t, id))

\* ------------------------------------ SandboxManager under the read-write lock
\* the per-sandbox operations of SandboxManager
ManagerOps == {"submit", "get_status", "stop", "commit", "get_mount",
               "get_sandbox_statistics"}
\* the operations whose body is inside
\* "async with self._ray_service.get_ray_rwlock().read_lock()"
TakesReadLock(op) == op \in {"submit", "get_status", "stop", "commit", "get_mount"}

\* task t is inside the body of the operation it calls
InOperation(t) ==
    /\ managed[t] # NoOperation
    /\ TakesReadLock(managed[t]) => tasks[t].pc = "reading"

\* a task calls an operation of the manager: read_lock() is entered at once or
\* waited for; get_sandbox_statistics goes to the deployment service directly
ManagerCall(t, op) ==
    /\ managed[t] = NoOperation /\ tasks[t].pc = "idle"
    /\ managed' = [managed EXCEPT ![t] = op]
    /\ IF ~TakesReadLock(op) THEN UNCHANGED <<rwlock, tasks>>
       ELSE IF CanRead(rwlock)
       THEN /\ rwlock' = [rwlock EXCEPT !.readers = @ + 1]
            /\ tasks' = [tasks EXCEPT ![t].pc = "reading"]
       ELSE /\ tasks' = [tasks EXCEPT ![t].pc = "wait_read"]
            /\ UNCHANGED rwlock
    /\ UNCHANGED notManager

\* the operation waiting for read_lock() enters its body
ManagerEnters(t) ==
    /\ managed[t] # NoOperation
    /\ ReadLockAcquire(t)

\* the operation returns or raises: the "async with" block is left
ManagerReturns(t) ==
    /\ InOperation(t)
    /\ managed' = [managed EXCEPT ![t] = NoOperation]
    /\ IF TakesReadLock(managed[t])
       THEN /\ rwlock' = [rwlock EXCEPT !.readers = @ - 1]
            /\ tasks' = [tasks EXCEPT ![t] = IdleTask]
       ELSE UNCHANGED <<rwlock, tasks>>
    /\ UNCHANGED notManager

\* a task that calls no operation of the manager takes the write side
Writer(t) ==
    /\ managed[t] = NoOperation
    /\ \/ WriteLock(t)
       \/ WriteLockAcquire(t)
       \/ WriteLockTimeout(t)
       \/ WriteUnlock(t)

GuardNext ==
    \E t \in Tasks :
        \/ \E op \in ManagerOps : ManagerCall(t, op)
        \/ ManagerEnters(t)
        \/ ManagerReturns(t)
        \/ Writer(t)

GuardSpec == Init /\ [][GuardNext]_vars

\* C30: while a writer holds the write side of the lock no task is inside the
\* body of a per-sandbox operation of the manager, and every task inside such
\* a body holds the read side.
C30_OperationsHoldReadLock ==
    /\ rwlock.writer => \A t \in Tasks : ~InOperation(t)
    /\ \A t \in Tasks : InOperation(t) => tasks[t].pc = "reading"

\* ------------------------------------------------ SandboxManager.get_status_v2
\* get_status_v2(sandbox_id) is called by a client
StatusV2Call(s, id) ==
    /\ FreeSlot(s)
    /\ calls' = [x \in Slots |->
                   IF x = s
                   THEN [Idle EXCEPT !.op = "get_status_v2", !.id = id, !.pc = "v2_info",
                                     !.t0 = now, !.iso = (InFlight(id) = {})]
                   ELSE Touch(calls[x], id)]
    /\ quiet' = [quiet EXCEPT ![id] = FALSE]
    /\ UNCHANGED <<now, redis_provider, alive, timeout, sandbox_meta, actors, reaper, others>>

\* _get_sandbox_info: the record cached in the KV store, or without a store
\* the actor's own record; "not found to get status" when there is none
StatusV2GetInfo(s) ==
    /\ calls[s].op = "get_status_v2" /\ calls[s].pc = "v2_info"
    /\ LET c == calls[s]
           a == actors[c.id]
       IN  calls' = [calls EXCEPT ![s] =
                       IF redis_provider
                       THEN IF alive[c.id] = None THEN Ended(s, Result(c, "Exception"))
                            ELSE [c EXCEPT !.pc = "v2_ttl_alive", !.info = alive[c.id]]
                       ELSE IF a = NoActor THEN Ended(s, Result(c, "Exception"))
                            ELSE [c EXCEPT !.pc = "v2_remote",
                                           !.info = [image |-> a.image, state |-> ActorState(a),
                                                     alive |-> "unset", status |-> "unset"]]]
    /\ UNCHANGED <<now, redis_provider, alive, timeout, sandbox_meta, actors, reaper, quiet, others>>

\* _update_expire_time: json_get(alive_sandbox_key(sandbox_id))
StatusV2TtlReadAlive(s) ==
    /\ calls[s].op = "get_status_v2" /\ calls[s].pc = "v2_ttl_alive"
    /\ calls' = [calls EXCEPT ![s].pc =
                   IF alive[calls[s].id] = None THEN "v2_remote" ELSE "v2_ttl_timeout"]
    /\ UNCHANGED <<now, redis_provider, alive, timeout, sandbox_meta, actors, reaper, quiet, others>>

\* _update_expire_time: json_get(timeout_sandbox_key(sandbox_id)) and
\* json_set of the new expiry
StatusV2TtlWrite(s) ==
    /\ calls[s].op = "get_status_v2" /\ calls[s].pc = "v2_ttl_timeout"
    /\ LET c == calls[s]
       IN  timeout' = IF timeout[c.id] = None THEN timeout
                      ELSE [timeout EXCEPT ![c.id] = SlidTtl(@, now)]
    /\ calls' = [calls EXCEPT ![s].pc = "v2_remote"]
    /\ UNCHANGED <<now, redis_provider, alive, sandbox_meta, actors, reaper, quiet, others>>

\* get_remote_status and _check_alive_status: the worker answers or the
\* request raises; is_alive is what the sandbox answers, False when it does
\* not answer; "state" becomes RUNNING only if is_alive.  c.info is the
\* sandbox_info that is stored, c.dinfo the response built from it
StatusV2Remote(s) ==
    /\ calls[s].op = "get_status_v2" /\ calls[s].pc = "v2_remote"
    /\ \E worker_answers \in BOOLEAN :
         LET c == calls[s]
             a == actors[c.id]
             is_alive == IF a = NoActor THEN FALSE ELSE ActorIsAlive(a)
             sandbox_info == [c.info EXCEPT !.status = "phases",
                                            !.state = IF is_alive THEN "RUNNING" ELSE @]
             response == [sandbox_info EXCEPT !.alive = IF is_alive THEN "true" ELSE "false"]
         IN  calls' = [calls EXCEPT ![s] =
                         IF ~worker_answers THEN Ended(s, Result(c, "Exception"))
                         ELSE IF redis_provider
                         THEN [c EXCEPT !.pc = "v2_set_alive", !.info = sandbox_info,
                                        !.dinfo = response]
                         ELSE Ended(s, [Result(c, "ok") EXCEPT !.info = response])]
    /\ UNCHANGED <<now, redis_provider, alive, timeout, sandbox_meta, actors, reaper, quiet, others>>

\* json_set(alive_sandbox_key(sandbox_id), "$", sandbox_info), and the response
StatusV2SetAlive(s) ==
    /\ calls[s].op = "get_status_v2" /\ calls[s].pc = "v2_set_alive"
    /\ LET c == calls[s]
       IN  /\ alive' = [alive EXCEPT ![c.id] = c.info]
           /\ calls' = [calls EXCEPT ![s] = Ended(s, [Result(c, "ok") EXCEPT !.info = c.dinfo])]
    /\ UNCHANGED <<now, redis_provider, timeout, sandbox_meta, actors, reaper, quiet, others>>

\* get_status_v2 beside submit and stop, the clock standing still
StatusV2Next ==
    \/ \E s \in ClientSlots, cfg \in Configs : SubmitStart(s, cfg)
    \/ \E s \in ClientSlots, id \in Ids : StopCall(s, id)
    \/ \E s \in ClientSlots, id \in Ids : StatusV2Call(s, id)
    \/ \E s \in Slots : SubmitGetInfo(s)
    \/ \E s \in Slots : SubmitSetAlive(s)
    \/ \E s \in Slots : SubmitSetTimeout(s)
    \/ \E s \in Slots : StopGetActor(s)
    \/ \E s \in Slots : StopActorStop(s)
    \/ \E s \in Slots : StopKill(s)
    \/ \E s \in Slots : StopClearAlive(s)
    \/ \E s \in Slots : StopClearTimeout(s)
    \/ \E s \in Slots : StatusV2GetInfo(s)
    \/ \E s \in Slots : StatusV2TtlReadAlive(s)
    \/ \E s \in Slots : StatusV2TtlWrite(s)
    \/ \E s \in Slots : StatusV2Remote(s)
    \/ \E s \in Slots : StatusV2SetAlive(s)
    \/ \E s \in Slots : Return(s)
    \/ \E id \in Ids : ActorPhaseSucceed(id)
    \/ \E id \in Ids : ActorPhaseFail(id)

StatusV2Spec == Init /\ [][StatusV2Next]_vars

\* ------------------------------------------------------- status claims, II
\* slot s holds the answer of a successful status call
StatusAnswered(s) ==
    /\ calls[s].op \in {"get_status", "get_status_v2"}
    /\ calls[s].pc = "done" /\ calls[s].res = "ok"

\* C31: a status that reports the sandbox as not alive does not report it as
\* state RUNNING, whatever phase or cached state was last seen.
C31_NotAliveIsNotRunning ==
    \A s \in ClientSlots :
        (StatusAnswered(s) /\ calls[s].info.alive = "false") => calls[s].info.state # "RUNNING"

\* ------------------------------------------------------- submit claims, II
\* submit computes stop_time in slot s: it has the SandboxInfo and goes on to
\* write the two records
SubmitComputes(s) ==
    calls[s].op = "submit" /\ calls[s].pc = "get_info" /\ calls'[s].pc = "set_alive"

\* C32: a submit with auto_clear_time A computes, at time now, the TTL record
\* with auto_clear_time = A and expire_time = now + 60*A; when it returns
\* successfully with a KV store, and no other handler of the sandbox has
\* overlapped it, alive:{id} holds the SandboxInfo of the sandbox, timeout:{id}
\* holds that TTL record, and the response carries the sandbox id.
C32_SubmitStoresBothRecords ==
    [][\A s \in ClientSlots :
         LET c == calls[s]
         IN  /\ SubmitComputes(s)
                   => calls'[s].ttl = [auto_clear_time |-> c.act,
                                       expire_time |-> now + SecondsPerMinute * c.act]
             /\ (Ends(s, "submit") /\ calls'[s].res = "ok" /\ calls'[s].iso /\ redis_provider)
                   => /\ alive'[c.id] = c.info /\ c.info # None
                      /\ timeout'[c.id] = c.ttl
                      /\ timeout'[c.id].auto_clear_time = c.act
                      /\ timeout'[c.id].expire_time <= now' + SecondsPerMinute * c.act
                      /\ calls'[s].id = c.id /\ c.id \in Ids]_vars

\* a submit made after the first tick has returned, and both records are there
C32_Witness ==
    \E s \in ClientSlots :
        /\ calls[s].op = "submit" /\ calls[s].pc = "done" /\ calls[s].res = "ok"
        /\ calls[s].iso /\ redis_provider /\ now > 0
        /\ alive[calls[s].id] # None /\ timeout[calls[s].id] # None
        /\ timeout[calls[s].id].expire_time
             = now + SecondsPerMinute * timeout[calls[s].id].auto_clear_time

MaxAttempts == 3

\* the client is answered with what the last upstream attempt gave: the
\* upstream's status, or the error of the attempt that raised
LastAttemptSurfaced ==
    IF proxy.body = "upstream" THEN proxy.status = proxy.up.status
    ELSE proxy.status \in {502, 504}

\* C34: a request whose upstream attempts all raised or answered with a
\* retryable status has made at most MaxAttempts upstream calls, and the client
\* is answered with the result of the last one.
C34_AtMostNAttempts ==
    (ProxyAnswered /\ UpstreamRetryable)
        => (proxy.calls \in 1..MaxAttempts /\ LastAttemptSurfaced)

\* ------------------------------------------------------ status claims, III
\* get_status in slot s looks the sandbox up in the KV store and finds no
\* alive record
CacheMiss(s) ==
    /\ calls[s].op = "get_status" /\ calls[s].pc = "gs_cache"
    /\ calls'[s].pc # "gs_cache"
    /\ alive[calls[s].id] = None

\* C35: with a KV store that holds no alive record for the sandbox, get_status
\* raises nothing at the lookup: it goes on with the record it read from the
\* actor, and the answer it gives in the end is that record.
C35_CacheMissFallsBack ==
    [][\A s \in ClientSlots :
         /\ CacheMiss(s) => (calls'[s].pc = "gs_set_alive" /\ calls'[s].info = calls[s].dinfo)
         /\ (Ends(s, "get_status") /\ redis_provider /\ calls[s].pc # "gs_get_actor"
               /\ calls[s].pc # "gs_read" /\ calls[s].info = calls[s].dinfo)
               => (calls'[s].res = "ok" /\ calls'[s].info = calls[s].dinfo)]_vars

\* a get_status has taken the live record for the missing one and is about to
\* store it
C35_Witness ==
    \E s \in ClientSlots :
        /\ calls[s].op = "get_status" /\ calls[s].pc = "gs_set_alive"
        /\ redis_provider /\ alive[calls[s].id] = None
        /\ calls[s].info = calls[s].dinfo

\* ------------------------------------------------------------ arun_with_retry
\* @retry_async(max_attempts=3, delay_seconds=5.0, backoff=2.0)
max_attempts == 3

\* arun_with_retry(sandbox, cmd, session, mode) is called, after the call
\* before it has returned or raised.  rock.sdk.sandbox.utils and
\* rock.sdk.sandbox.agent.utils each define one; impl is the one called
RetryCall(impl) ==
    /\ sdk.retry.pc \in {"idle", "returned", "raised"}
    /\ sdk' = [sdk EXCEPT !.retry = [pc |-> "attempt", impl |-> impl, codes |-> <<>>]]
    /\ UNCHANGED <<sandboxVars, proxyVars, sessionVars, lockVars, workerVars, managerVars>>

\* rock.sdk.sandbox.utils.arun_with_retry: sandbox.arun answers with exit_code;
\* a non-zero code raises, and retry_async calls the function again until
\* max_attempts calls have been made
arun_with_retry(exit_code) ==
    /\ sdk.retry.pc = "attempt" /\ sdk.retry.impl = "sandbox.utils"
    /\ LET codes == Append(sdk.retry.codes, exit_code)
       IN  sdk' = [sdk EXCEPT !.retry.codes = codes,
                              !.retry.pc = IF exit_code = 0 THEN "returned"
                                           ELSE IF Len(codes) < max_attempts THEN "attempt"
                                           ELSE "raised"]
    /\ UNCHANGED <<sandboxVars, proxyVars, sessionVars, lockVars, workerVars, managerVars>>

\* rock.sdk.sandbox.agent.utils.arun_with_retry: the same body without the
\* decorator, so the exception of a non-zero code goes to the caller
agent_utils_arun_with_retry(exit_code) ==
    /\ sdk.retry.pc = "attempt" /\ sdk.retry.impl = "agent.utils"
    /\ sdk' = [sdk EXCEPT !.retry.codes = Append(@, exit_code),
                          !.retry.pc = IF exit_code = 0 THEN "returned" ELSE "raised"]
    /\ UNCHANGED <<sandboxVars, proxyVars, sessionVars, lockVars, workerVars, managerVars>>

RetryNext ==
    \/ \E impl \in {"sandbox.utils", "agent.utils"} : RetryCall(impl)
    \/ \E exit_code \in {0, 1, 2, 127} : arun_with_retry(exit_code)
    \/ \E exit_code \in {0, 1, 2, 127} : agent_utils_arun_with_retry(exit_code)

RetrySpec == Init /\ [][RetryNext]_vars

\* --------------------------------------------------------------- retry claims
\* the exit codes of the attempts before the last one
EarlierCodes == {sdk.retry.codes[i] : i \in 1..(Len(sdk.retry.codes) - 1)}

\* C40: arun_with_retry makes at most max_attempts attempts; every attempt but
\* the last had a non-zero exit code; it returns exactly when the last attempt
\* had exit code 0, and it raises only when max_attempts attempts have failed.
C40_ThreeAttempts ==
    LET r == sdk.retry
        n == Len(r.codes)
    IN  /\ n <= max_attempts
        /\ 0 \notin EarlierCodes
        /\ r.pc = "returned" => (n >= 1 /\ r.codes[n] = 0)
        /\ r.pc = "attempt" => (n < max_attempts /\ (n >= 1 => r.codes[n] # 0))
        /\ r.pc = "raised" => (n = max_attempts /\ r.codes[n] # 0)

\* ------------------------------------------------- RuntimeEnv and ModelService
\* RuntimeEnv.init() ends.  When ModelService.install awaits it, install goes
\* on to create the config file, or ends with the exception
EnvEnds(s, res) ==
    [s EXCEPT !.env.pc = "idle", !.env.res = res,
              !.svc = IF s.svc.pc # "init" THEN @
                      ELSE IF res = "ok" THEN [@ EXCEPT !.pc = "config_ini"]
                      ELSE [@ EXCEPT !.pc = "idle", !.res = "raised"]]

\* init that sets _initialized before its steps have run
RuntimeEnv_initEarlyFlag(custom_install_cmd, ok) ==
    LET e == sdk.env
    IN  /\ sdk.svc.pc \in {"idle", "init"}
        /\ sdk' =
             CASE e.pc = "idle" ->
                    IF e._initialized
                    THEN EnvEnds([sdk EXCEPT !.env.did = {}], "ok")
                    ELSE [sdk EXCEPT !.env.pc = "session", !.env.res = "-", !.env.did = {},
                                     !.env._initialized = TRUE]
               [] e.pc = "session" ->
                    IF e._session_ready THEN [sdk EXCEPT !.env.pc = "workdir"]
                    ELSE IF ok THEN [sdk EXCEPT !.env.pc = "workdir",
                                                !.env._session_ready = TRUE,
                                                !.env.did = @ \cup {"session"}]
                    ELSE EnvEnds(sdk, "raised")
               [] e.pc = "workdir" ->
                    IF ok THEN [sdk EXCEPT !.env.pc = "install", !.env.did = @ \cup {"workdir"}]
                    ELSE EnvEnds(sdk, "raised")
               [] e.pc = "install" ->
                    IF ~ok THEN EnvEnds(sdk, "raised")
                    ELSE IF custom_install_cmd
                    THEN [sdk EXCEPT !.env.pc = "custom", !.env.did = @ \cup {"install"}]
                    ELSE EnvEnds([sdk EXCEPT !.env.did = @ \cup {"install"}], "ok")
               [] e.pc = "custom" ->
                    IF ok THEN EnvEnds([sdk EXCEPT !.env.did = @ \cup {"custom"}], "ok")
                    ELSE EnvEnds(sdk, "raised")
        /\ UNCHANGED <<sandboxVars, proxyVars, sessionVars, lockVars, workerVars, managerVars>>

\* RuntimeEnv.init, one await at a time; ok is whether the sandbox call of the
\* step succeeds (create_session returns, exit_code is 0), custom_install_cmd
\* whether the configuration has one.  It is called by the client, or by
\* ModelService.install
RuntimeEnv_init(custom_install_cmd, ok) ==
    LET e == sdk.env
    IN  /\ sdk.svc.pc \in {"idle", "init"}
        /\ sdk' =
             CASE e.pc = "idle" ->
                    \* "if self._initialized: return"
                    IF e._initialized
                    THEN EnvEnds([sdk EXCEPT !.env.did = {}], "ok")
                    ELSE [sdk EXCEPT !.env.pc = "session", !.env.res = "-", !.env.did = {}]
               [] e.pc = "session" ->
                    \* _ensure_session
                    IF e._session_ready THEN [sdk EXCEPT !.env.pc = "workdir"]
                    ELSE IF ok THEN [sdk EXCEPT !.env.pc = "workdir",
                                                !.env._session_ready = TRUE,
                                                !.env.did = @ \cup {"session"}]
                    ELSE EnvEnds(sdk, "raised")
               [] e.pc = "workdir" ->
                    \* _ensure_workdir
                    IF ok THEN [sdk EXCEPT !.env.pc = "install", !.env.did = @ \cup {"workdir"}]
                    ELSE EnvEnds(sdk, "raised")
               [] e.pc = "install" ->
                    \* _install_runtime, _post_init
                    IF ~ok THEN EnvEnds(sdk, "raised")
                    ELSE IF custom_install_cmd
                    THEN [sdk EXCEPT !.env.pc = "custom", !.env.did = @ \cup {"install"}]
                    ELSE EnvEnds([sdk EXCEPT !.env.did = @ \cup {"install"},
                                             !.env._initialized = TRUE], "ok")
               [] e.pc = "custom" ->
                    \* _do_custom_install
                    IF ok THEN EnvEnds([sdk EXCEPT !.env.did = @ \cup {"custom"},
                                                   !.env._initialized = TRUE], "ok")
                    ELSE EnvEnds(sdk, "raised")
        /\ UNCHANGED <<sandboxVars, proxyVars, sessionVars, lockVars, workerVars, managerVars>>

\* ModelService.install: runtime_env.init(), the config file, the package
install(exit_code) ==
    LET v == sdk.svc
    IN  /\ v.pc \in {"idle", "config_ini", "install_pkg"}
        /\ v.pc = "idle" => sdk.env.pc = "idle"
        /\ sdk' =
             CASE v.pc = "idle" ->
                    [sdk EXCEPT !.svc = [v EXCEPT !.pc = "init", !.op = "install", !.res = "-",
                                                  !.ran = 0]]
               [] v.pc = "config_ini" ->
                    IF exit_code = 0
                    THEN [sdk EXCEPT !.svc.pc = "install_pkg", !.svc.ran = @ + 1]
                    ELSE [sdk EXCEPT !.svc = [v EXCEPT !.ran = @ + 1, !.pc = "idle",
                                                       !.res = "raised"]]
               [] v.pc = "install_pkg" ->
                    IF exit_code = 0
                    THEN [sdk EXCEPT !.svc = [v EXCEPT !.ran = @ + 1, !.is_installed = TRUE,
                                                       !.pc = "idle", !.res = "ok"]]
                    ELSE [sdk EXCEPT !.svc = [v EXCEPT !.ran = @ + 1, !.pc = "idle",
                                                       !.res = "raised"]]
        /\ UNCHANGED <<sandboxVars, proxyVars, sessionVars, lockVars, workerVars, managerVars>>

\* start without the is_installed check
startUnchecked(exit_code) ==
    LET v == sdk.svc
    IN  /\ v.pc \in {"idle", "start_cmd"}
        /\ v.pc = "idle" => sdk.env.pc = "idle"
        /\ sdk' = [sdk EXCEPT !.svc =
             CASE v.pc = "idle" ->
                    [v EXCEPT !.pc = "start_cmd", !.op = "start", !.res = "-", !.ran = 0]
               [] v.pc = "start_cmd" ->
                    IF exit_code = 0
                    THEN [v EXCEPT !.ran = @ + 1, !.is_started = TRUE, !.pc = "idle", !.res = "ok"]
                    ELSE [v EXCEPT !.ran = @ + 1, !.pc = "idle", !.res = "raised"]]
        /\ UNCHANGED <<sandboxVars, proxyVars, sessionVars, lockVars, workerVars, managerVars>>

\* ModelService.start: RuntimeError when not installed; else the start command
start(exit_code) ==
    LET v == sdk.svc
    IN  /\ v.pc \in {"idle", "start_cmd"}
        /\ v.pc = "idle" => sdk.env.pc = "idle"
        /\ sdk' = [sdk EXCEPT !.svc =
             CASE v.pc = "idle" ->
                    IF ~v.is_installed
                    THEN [v EXCEPT !.op = "start", !.ran = 0, !.pc = "idle", !.res = "RuntimeError"]
                    ELSE [v EXCEPT !.pc = "start_cmd", !.op = "start", !.res = "-", !.ran = 0]
               [] v.pc = "start_cmd" ->
                    IF exit_code = 0
                    THEN [v EXCEPT !.ran = @ + 1, !.is_started = TRUE, !.pc = "idle", !.res = "ok"]
                    ELSE [v EXCEPT !.ran = @ + 1, !.pc = "idle", !.res = "raised"]]
        /\ UNCHANGED <<sandboxVars, proxyVars, sessionVars, lockVars, workerVars, managerVars>>

\* stop that clears is_started whatever the stop command's exit code
stopAlwaysClears(exit_code) ==
    LET v == sdk.svc
    IN  /\ v.pc \in {"idle", "stop_cmd"}
        /\ v.pc = "idle" => sdk.env.pc = "idle"
        /\ sdk' = [sdk EXCEPT !.svc =
             CASE v.pc = "idle" ->
                    IF ~v.is_started
                    THEN [v EXCEPT !.op = "stop", !.ran = 0, !.pc = "idle", !.res = "ok"]
                    ELSE [v EXCEPT !.pc = "stop_cmd", !.op = "stop", !.res = "-", !.ran = 0]
               [] v.pc = "stop_cmd" ->
                    [v EXCEPT !.ran = @ + 1, !.is_started = FALSE, !.pc = "idle",
                              !.res = IF exit_code = 0 THEN "ok" ELSE "raised"]]
        /\ UNCHANGED <<sandboxVars, proxyVars, sessionVars, lockVars, workerVars, managerVars>>

\* ModelService.stop: nothing when not started; else the stop command
stop(exit_code) ==
    LET v == sdk.svc
    IN  /\ v.pc \in {"idle", "stop_cmd"}
        /\ v.pc = "idle" => sdk.env.pc = "idle"
        /\ sdk' = [sdk EXCEPT !.svc =
             CASE v.pc = "idle" ->
                    IF ~v.is_started
                    THEN [v EXCEPT !.op = "stop", !.ran = 0, !.pc = "idle", !.res = "ok"]
                    ELSE [v EXCEPT !.pc = "stop_cmd", !.op = "stop", !.res = "-", !.ran = 0]
               [] v.pc = "stop_cmd" ->
                    IF exit_code = 0
                    THEN [v EXCEPT !.ran = @ + 1, !.is_started = FALSE, !.pc = "idle", !.res = "ok"]
                    ELSE [v EXCEPT !.ran = @ + 1, !.pc = "idle", !.res = "raised"]]
        /\ UNCHANGED <<sandboxVars, proxyVars, sessionVars, lockVars, workerVars, managerVars>>

\* one client calls install, start and stop on a ModelService, and init on its
\* RuntimeEnv, one call after the other
ServiceNext ==
    \/ \E custom_install_cmd \in BOOLEAN, ok \in BOOLEAN :
          RuntimeEnv_init(custom_install_cmd, ok)
    \/ \E exit_code \in {0, 1} : install(exit_code)
    \/ \E exit_code \in {0, 1} : start(exit_code)
    \/ \E exit_code \in {0, 1} : stop(exit_code)

ServiceSpec == Init /\ [][ServiceNext]_vars

\* ------------------------------------------------------- model service claims
\* the client calls start() on a ModelService that is not installed
StartUninstalled ==
    /\ sdk.svc.pc = "idle" /\ ~sdk.svc.is_installed
    /\ sdk'.svc # sdk.svc /\ sdk'.svc.op = "start"
    /\ sdk'.env = sdk.env

\* install() returns without an exception
InstallSucceeds ==
    sdk.svc.op = "install" /\ sdk.svc.pc # "idle" /\ sdk'.svc.pc = "idle" /\ sdk'.svc.res = "ok"

\* C36: start() on a ModelService whose is_installed is false raises
\* RuntimeError, runs no command in the sandbox and leaves is_started false;
\* when install() succeeds is_installed is true, and is_started, false since
\* construction, becomes true in no step but one of start()
C36_StartNeedsInstall ==
    /\ [][StartUninstalled =>
            /\ sdk'.svc.pc = "idle" /\ sdk'.svc.res = "RuntimeError"
            /\ sdk'.svc.ran = 0
            /\ ~sdk'.svc.is_started /\ ~sdk'.svc.is_installed]_vars
    /\ [][InstallSucceeds =>
            sdk'.svc.is_installed /\ sdk'.svc.is_started = sdk.svc.is_started]_vars
    /\ [][~sdk.svc.is_started /\ sdk'.svc.is_started =>
            sdk.svc.op = "start" /\ sdk.svc.pc = "start_cmd"]_vars

\* start() was refused after an install() that failed
C36_Witness ==
    /\ sdk.svc.op = "start" /\ sdk.svc.res = "RuntimeError" /\ sdk.svc.pc = "idle"
    /\ sdk.env.res = "raised"

\* a start or stop command has just exited with code 0
CommandExitedZero ==
    /\ sdk.svc.pc \in {"start_cmd", "stop_cmd"}
    /\ sdk'.svc.ran = sdk.svc.ran + 1 /\ sdk'.svc.res = "ok"

\* the client calls stop() on a ModelService that is not started
StopUnstarted ==
    /\ sdk.svc.pc = "idle" /\ ~sdk.svc.is_started
    /\ sdk'.svc # sdk.svc /\ sdk'.svc.op = "stop"

\* C37: over every sequence of install, start and stop calls, failing commands
\* included, is_started implies is_installed; is_started changes only when a
\* start or stop command exited with code 0; stop() on a service that is not
\* started runs no command and changes neither flag
C37_StartedImpliesInstalled ==
    /\ [](sdk.svc.is_started => sdk.svc.is_installed)
    /\ [][sdk'.svc.is_started # sdk.svc.is_started => CommandExitedZero]_vars
    /\ [][StopUnstarted =>
            /\ sdk'.svc.pc = "idle" /\ sdk'.svc.res = "ok" /\ sdk'.svc.ran = 0
            /\ ~sdk'.svc.is_started
            /\ sdk'.svc.is_installed = sdk.svc.is_installed]_vars

\* a stop command failed: the service is still started
C37_Witness ==
    /\ sdk.svc.op = "stop" /\ sdk.svc.res = "raised" /\ sdk.svc.ran = 1
    /\ sdk.svc.is_started /\ sdk.svc.is_installed

\* ---------------------------------------------------------- runtime env claims
\* init() is called on a RuntimeEnv that is already initialized
InitAgain == sdk.env.pc = "idle" /\ sdk.env._initialized /\ sdk'.env # sdk.env

\* C38: RuntimeEnv.init() is idempotent: once an init() has completed, a
\* later call returns having created no session and no workdir and run no
\* installation; the session is created at most once; and _initialized
\* becomes true only at the end of an init() whose every step succeeded
C38_InitIdempotent ==
    /\ [][InitAgain =>
            /\ sdk'.env.pc = "idle" /\ sdk'.env.res = "ok" /\ sdk'.env.did = {}
            /\ sdk'.env._initialized /\ sdk'.env._session_ready]_vars
    /\ [][sdk.env._initialized =>
            sdk'.env._initialized /\ sdk'.env.did \subseteq sdk.env.did]_vars
    /\ [][("session" \in sdk'.env.did /\ "session" \notin sdk.env.did) =>
            ~sdk.env._session_ready]_vars
    /\ [][~sdk.env._initialized /\ sdk'.env._initialized =>
            /\ sdk'.env.pc = "idle" /\ sdk'.env.res = "ok"
            /\ sdk'.env._session_ready
            /\ {"workdir", "install"} \subseteq sdk'.env.did
            /\ sdk.env.pc = "custom" => "custom" \in sdk'.env.did]_vars
    /\ [](sdk.env._initialized => sdk.env._session_ready)

\* a second init(), made by install() of the ModelService, did nothing
C38_Witness ==
    /\ sdk.env._initialized /\ sdk.env.did = {} /\ sdk.env.res = "ok"
    /\ sdk.svc.op = "install" /\ sdk.svc.pc = "config_ini"

\* =================================================================== RockAgent
\* commands in pre_init_cmds and in post_init_cmds
MaxCmds == 2

\* post-init entered as soon as one parallel task has ended
ParallelTaskEndsFirstWins(task, ok) ==
    LET a == sdk.agent
        b == [a EXCEPT ![task] = IF ok THEN "ok" ELSE "failed"]
        \* init goes on to _execute_post_init, which returns at once for an
        \* empty list, and then init returns
        EnterPostInit(x) ==
            LET y == [x EXCEPT !.started = Append(@, "post_init"), !.idx = 0]
            IN  IF x.cfg.post_init_cmds = 0
                THEN [y EXCEPT !.pc = "idle", !.res = "ok"]
                ELSE [y EXCEPT !.pc = "post_init"]
    IN  /\ a[task] = "running"
        /\ sdk' = [sdk EXCEPT !.agent =
             IF a.pc # "gather" THEN b
             ELSE IF ~ok THEN [b EXCEPT !.pc = "idle", !.res = "raised"]
             ELSE EnterPostInit(b)]
        /\ UNCHANGED <<sandboxVars, proxyVars, sessionVars, lockVars, workerVars, managerVars>>

\* one of the tasks given to asyncio.gather ends: install(), or
\* _init_model_service().  gather raises at the first task that fails, and
\* does not cancel the other one, which runs on after init has raised; gather
\* returns when every task has returned
ParallelTaskEnds(task, ok) ==
    LET a == sdk.agent
        b == [a EXCEPT ![task] = IF ok THEN "ok" ELSE "failed"]
        \* init goes on to _execute_post_init, which returns at once for an
        \* empty list, and then init returns
        EnterPostInit(x) ==
            LET y == [x EXCEPT !.started = Append(@, "post_init"), !.idx = 0]
            IN  IF x.cfg.post_init_cmds = 0
                THEN [y EXCEPT !.pc = "idle", !.res = "ok"]
                ELSE [y EXCEPT !.pc = "post_init"]
    IN  /\ a[task] = "running"
        /\ sdk' = [sdk EXCEPT !.agent =
             IF a.pc # "gather" THEN b
             ELSE IF ~ok THEN [b EXCEPT !.pc = "idle", !.res = "raised"]
             ELSE IF b.install = "running" \/ b.model_service = "running" THEN b
             ELSE EnterPostInit(b)]
        /\ UNCHANGED <<sandboxVars, proxyVars, sessionVars, lockVars, workerVars, managerVars>>

\* RockAgent.init, one await at a time; ok is whether the awaited sandbox call
\* succeeds.  pc is the step whose await is pending, started the steps begun
RockAgent_init(config, ok) ==
    LET a == sdk.agent
        Raise(x) == [x EXCEPT !.pc = "idle", !.res = "raised"]
        EnterGather(x) ==
            [x EXCEPT !.pc = "gather",
                      !.started = @ \o <<"install">> \o
                                  (IF x.cfg.model_service_config THEN <<"model_service">>
                                   ELSE <<>>),
                      !.install = "running",
                      !.model_service = IF x.cfg.model_service_config THEN "running" ELSE "-"]
        EnterProvision(x) ==
            LET y == [x EXCEPT !.started = Append(@, "provision_working_dir"), !.idx = 0]
            IN  IF x.cfg.working_dir THEN [y EXCEPT !.pc = "provision_working_dir"]
                ELSE EnterGather(y)
        EnterSetup(x) ==
            [x EXCEPT !.pc = "setup_session", !.started = Append(@, "setup_session")]
    IN  /\ a.pc \in {"idle", "pre_init", "setup_session", "provision_working_dir", "post_init"}
        /\ a.pc = "idle" => a.res = "-"
        /\ sdk' = [sdk EXCEPT !.agent =
             CASE a.pc = "idle" ->
                    LET x == [a EXCEPT !.cfg = config, !.started = <<"pre_init">>]
                    IN  IF config.pre_init_cmds = 0 THEN EnterSetup(x)
                        ELSE [x EXCEPT !.pc = "pre_init"]
               [] a.pc = "pre_init" ->
                    IF ~ok THEN Raise(a)
                    ELSE IF a.idx + 1 < a.cfg.pre_init_cmds THEN [a EXCEPT !.idx = @ + 1]
                    ELSE EnterSetup(a)
               [] a.pc = "setup_session" ->
                    IF ok THEN EnterProvision(a) ELSE Raise(a)
               [] a.pc = "provision_working_dir" ->
                    \* the directory is created, then uploaded
                    IF ~ok THEN Raise(a)
                    ELSE IF a.idx = 0 THEN [a EXCEPT !.idx = 1]
                    ELSE EnterGather(a)
               [] a.pc = "post_init" ->
                    IF ~ok THEN Raise(a)
                    ELSE IF a.idx + 1 < a.cfg.post_init_cmds THEN [a EXCEPT !.idx = @ + 1]
                    ELSE [a EXCEPT !.pc = "idle", !.res = "ok"]]
        /\ UNCHANGED <<sandboxVars, proxyVars, sessionVars, lockVars, workerVars, managerVars>>

AgentNext ==
    \/ \E config \in [pre_init_cmds : 0..MaxCmds, post_init_cmds : 0..MaxCmds,
                        working_dir : BOOLEAN, model_service_config : BOOLEAN],
          ok \in BOOLEAN :
          RockAgent_init(config, ok)
    \/ \E task \in {"install", "model_service"}, ok \in BOOLEAN : ParallelTaskEnds(task, ok)

AgentSpec == Init /\ [][AgentNext]_vars

\* ----------------------------------------------------------------- agent claims
\* the steps of init in their order, for a configuration
StepOrder(config) ==
    <<"pre_init", "setup_session", "provision_working_dir", "install">>
    \o (IF config.model_service_config THEN <<"model_service">> ELSE <<>>)
    \o <<"post_init">>

\* init has started its post-init step
PostInitStarted == \E i \in DOMAIN sdk.agent.started : sdk.agent.started[i] = "post_init"

\* a step of init raises: a sequential step, or a task given to gather
StepRaises ==
    \/ /\ sdk.agent.pc = "gather"
       /\ \E task \in {"install", "model_service"} :
             sdk.agent[task] = "running" /\ sdk'.agent[task] = "failed"
    \/ /\ sdk.agent.pc \in {"pre_init", "setup_session", "provision_working_dir", "post_init"}
       /\ sdk'.agent.pc = "idle" /\ sdk'.agent.res # "ok"

\* C39: RockAgent.init starts its steps in the order pre-init, session
\* setup, working-directory provisioning, install and (if configured) the
\* model service together, post-init; post-init has started only when both
\* parallel tasks have returned; when a step raises, init raises and starts no
\* step after it
C39_InitStepsInOrder ==
    /\ [](sdk.agent.started # <<>> =>
            /\ Len(sdk.agent.started) <= Len(StepOrder(sdk.agent.cfg))
            /\ sdk.agent.started = SubSeq(StepOrder(sdk.agent.cfg), 1, Len(sdk.agent.started)))
    /\ [](PostInitStarted =>
            /\ sdk.agent.install = "ok"
            /\ sdk.agent.model_service = IF sdk.agent.cfg.model_service_config THEN "ok" ELSE "-")
    /\ [](sdk.agent.res = "ok" => sdk.agent.started = StepOrder(sdk.agent.cfg))
    /\ [][StepRaises => sdk'.agent.res = "raised" /\ sdk'.agent.started = sdk.agent.started]_vars
    /\ [][sdk.agent.res = "raised" =>
            sdk'.agent.res = "raised" /\ sdk'.agent.started = sdk.agent.started]_vars

\* install() failed while the model service was still installing: init has
\* raised and its post-init commands were not started
C39_Witness ==
    /\ sdk.agent.res = "raised" /\ sdk.agent.install = "failed"
    /\ sdk.agent.model_service = "running"
    /\ sdk.agent.cfg.post_init_cmds > 0 /\ ~PostInitStarted

====
